---- MODULE Spec2Model ----
(***************************************************************************)
(* Model of the harpoon-core hygiene engine                                *)
(* (crates/harpoon-core/src/lib.rs): content identity, language detection, *)
(* the hygiene scorer, state construction and EngineCore::run_cycle, the   *)
(* absorb/requeue loop over a FIFO queue of input positions, and the       *)
(* engine around it: construction, the thread pool that computes the       *)
(* states, and concurrent calls on one engine.                             *)
(*                                                                         *)
(* Text is modelled by TLA+ strings over ASCII; f32 scores are modelled in *)
(* fixed point: a score or threshold s stands for s / 10000, the metrics   *)
(* inside the scorer are carried at 1 / 1000000.  Option<T> is modelled by *)
(* a sequence of length 0 (None) or 1 (Some).  Rust's 0-based positions    *)
(* are stored as they are; TLA+ sequences are indexed from 1, so position  *)
(* p of `states` is states[p + 1].                                         *)
(***************************************************************************)
EXTENDS Integers, Sequences, FiniteSets, TLC

VARIABLES
    fragments,          \* run_cycle argument: Vec<FragmentInput>
    hygiene_threshold,  \* run_cycle argument: f32, in 1/10000
    max_iterations,     \* run_cycle argument: Option<usize>
    pc,                 \* position in run_cycle: "call", "loop", "assemble", "done"
    states,             \* Vec<FragmentState>
    queue,              \* VecDeque<usize> of input positions
    anchors,            \* Vec<String>
    events,             \* Vec<CycleEvent>
    absorbed_indices,   \* Vec<usize>
    iterations,         \* usize
    last_anchor,        \* Option<String>
    result,             \* Option<HarpoonCycleData>: the returned value
    evaluated           \* history: the input positions scored so far, in order

VARIABLES
    target,     \* cfg(target_arch): "native" or "wasm32"
    new_args,   \* arguments of the constructor: <<max_batch, num_threads>>
    engine,     \* None before construction, then Some(Ok(EngineCore)) or Some(Err(msg))
    callers,    \* the threads that call run_cycle on the engine
    calls,      \* per caller: the arguments, locals and result of its run_cycle call
    tasks,      \* chunks of the parallel iterator waiting for a pool thread
    workers     \* the chunks the pool's threads are running, one per busy thread

vars == <<fragments, hygiene_threshold, max_iterations, pc, states, queue,
          anchors, events, absorbed_indices, iterations, last_anchor, result,
          evaluated>>

engine_vars == <<target, new_args, engine, callers, calls, tasks, workers>>

VARIABLES
    request,        \* a call of one exposed operation: its name and arguments
    response,       \* None until the operation returns, then Some(value)
    gil,            \* the host thread holding the interpreter lock, if any
    py_pc,          \* position in the Python envelope_cycle
    py_result,      \* the PyResult<HarpoonCycle> handed to the host
    fusion_state,   \* FusionState behind the orchestrator's RwLock
    fusion_result,  \* what process_fragment returned, if it has
    fusion_calls,   \* per task: its process_fragments call on the orchestrator
    fusion_lock,    \* the task holding the write guard of `state`, if any
    fusion_stats,   \* what stats() returned last, if it was called
    allocations,    \* HostedAiConnector.allocations: id -> GpuAllocationResponse
    metrics,        \* HostedAiConnector.metrics
    hosted_ops,     \* per client task: the connector operation it is in
    sent            \* history: the requests sent to the remote API, in order

api_vars == <<request, response>>
gil_vars == <<gil, py_pc, py_result>>
fusion_vars == <<fusion_state, fusion_result, fusion_calls, fusion_lock, fusion_stats>>
hosted_vars == <<allocations, metrics, hosted_ops, sent>>

\* What a step of one run_cycle call, and a step of the engine, leave alone.
outside_cycle == <<engine_vars, api_vars, gil_vars, fusion_vars, hosted_vars>>
outside_engine == <<vars, api_vars, gil_vars, fusion_vars, hosted_vars>>

(***************************************************************************)
(* Bounds of the model.                                                    *)
(***************************************************************************)
MaxLen == 3         \* longest input batch
MaxCap == 4         \* largest max_iterations = Some(cap)
MaxEvals == 6       \* evaluations explored when max_iterations = None

None == <<>>
Some(x) == <<x>>
IsSome(o) == Len(o) = 1
Unwrap(o) == o[1]

(***************************************************************************)
(* Strings.                                                                *)
(***************************************************************************)
Char(s, i) == SubSeq(s, i, i)

IsWhitespace(c) == c \in {" ", "\t", "\n"}

starts_with(s, p) == Len(s) >= Len(p) /\ SubSeq(s, 1, Len(p)) = p

ends_with(s, p) == Len(s) >= Len(p) /\ SubSeq(s, Len(s) - Len(p) + 1, Len(s)) = p

UpperChars == "ABCDEFGHIJKLMNOPQRSTUVWXYZ"
LowerChars == "abcdefghijklmnopqrstuvwxyz"

LowerChar(c) ==
    IF \E k \in 1..Len(UpperChars) : Char(UpperChars, k) = c
    THEN Char(LowerChars, CHOOSE k \in 1..Len(UpperChars) : Char(UpperChars, k) = c)
    ELSE c

RECURSIVE to_ascii_lowercase(_)
to_ascii_lowercase(s) ==
    IF Len(s) = 0 THEN ""
    ELSE LowerChar(Char(s, 1)) \o to_ascii_lowercase(SubSeq(s, 2, Len(s)))

\* str::lines: split on "\n"; a final empty piece is not a line.
RECURSIVE SplitLines(_, _, _)
SplitLines(s, i, start) ==
    IF i > Len(s)
    THEN (IF start > Len(s) THEN <<>> ELSE <<SubSeq(s, start, Len(s))>>)
    ELSE IF Char(s, i) = "\n"
         THEN <<SubSeq(s, start, i - 1)>> \o SplitLines(s, i + 1, i + 1)
         ELSE SplitLines(s, i + 1, start)

lines(s) == SplitLines(s, 1, 1)

\* str::trim: the text between the first and the last non-whitespace character.
trim(s) ==
    LET solid == {i \in 1..Len(s) : ~IsWhitespace(Char(s, i))}
    IN  IF solid = {} THEN ""
        ELSE SubSeq(s, CHOOSE i \in solid : \A j \in solid : i <= j,
                       CHOOSE i \in solid : \A j \in solid : j <= i)

\* str::split_whitespace().count(): the maximal runs of non-whitespace.
split_whitespace_count(s) ==
    Cardinality({i \in 1..Len(s) :
        /\ ~IsWhitespace(Char(s, i))
        /\ (i = 1 \/ IsWhitespace(Char(s, i - 1)))})

\* line.chars().take_while(|c| *c == ' ' || *c == '\t').count()
leading_depth(line) ==
    LET other == {i \in 1..Len(line) : Char(line, i) \notin {" ", "\t"}}
    IN  IF other = {} THEN Len(line)
        ELSE (CHOOSE i \in other : \A j \in other : i <= j) - 1

Max(a, b) == IF a >= b THEN a ELSE b
Min(a, b) == IF a <= b THEN a ELSE b
clamp(x, lo, hi) == Max(lo, Min(x, hi))

RECURSIVE SumSeq(_)
SumSeq(q) == IF Len(q) = 0 THEN 0 ELSE Head(q) + SumSeq(Tail(q))

\* The lines a `for line in body.lines()` loop keeps after
\* `if line.trim().is_empty() { continue; }`.
non_blank_lines(body) == SelectSeq(lines(body), LAMBDA l : trim(l) /= "")

(***************************************************************************)
(* Content identity.  SHA3-256 is modelled as collision free on the bodies *)
(* of the model: the digest of a body is named by the body itself.  The    *)
(* hash is the hex text of the whole digest, the fingerprint the unpadded  *)
(* base64 text of its first 12 bytes.                                      *)
(***************************************************************************)
compute_anchor_hash(body) == "hex(sha3_256(" \o body \o "))"

compute_fingerprint(body) == "b64(sha3_256(" \o body \o ")[..12])"

(***************************************************************************)
(* Language detection.  A keyword pattern is (?m)^\s*(k1|k2|...): some     *)
(* line start followed by any run of whitespace and then a keyword.        *)
(***************************************************************************)
PY_KEYWORDS == {"def ", "class ", "async ", "from ", "import "}
RUST_KEYWORDS == {"pub ", "fn ", "impl ", "use ", "struct ", "enum "}
JS_KEYWORDS == {"export ", "import ", "const ", "let ", "async ", "function "}

is_match(keywords, body) ==
    \E p \in 1..Len(body) :
        /\ (p = 1 \/ Char(body, p - 1) = "\n")
        /\ \E q \in p..Len(body) :
              /\ \A k \in p..(q - 1) : IsWhitespace(Char(body, k))
              /\ \E kw \in keywords : starts_with(SubSeq(body, q, Len(body)), kw)

\* Fault: every extension is tried before any keyword pattern.
detect_language_ExtensionsFirst(path, body) ==
    LET lower == to_ascii_lowercase(path)
    IN  IF ends_with(lower, ".py") THEN "python"
        ELSE IF ends_with(lower, ".rs") THEN "rust"
        ELSE IF \/ ends_with(lower, ".ts")
                \/ ends_with(lower, ".tsx")
                \/ ends_with(lower, ".js") THEN "typescript"
        ELSE IF \/ ends_with(lower, ".json")
                \/ ends_with(lower, ".yaml")
                \/ ends_with(lower, ".yml") THEN "config"
        ELSE IF is_match(PY_KEYWORDS, body) THEN "python"
        ELSE IF is_match(RUST_KEYWORDS, body) THEN "rust"
        ELSE IF is_match(JS_KEYWORDS, body) THEN "typescript"
        ELSE "text"
detect_language(path, body) ==
    LET lower == to_ascii_lowercase(path)
    IN  IF ends_with(lower, ".py") \/ is_match(PY_KEYWORDS, body) THEN "python"
        ELSE IF ends_with(lower, ".rs") \/ is_match(RUST_KEYWORDS, body) THEN "rust"
        ELSE IF \/ ends_with(lower, ".ts")
                \/ ends_with(lower, ".tsx")
                \/ ends_with(lower, ".js")
                \/ is_match(JS_KEYWORDS, body) THEN "typescript"
        ELSE IF \/ ends_with(lower, ".json")
                \/ ends_with(lower, ".yaml")
                \/ ends_with(lower, ".yml") THEN "config"
        ELSE "text"

(***************************************************************************)
(* Hygiene scorer.  Metrics are in 1/1000000 (Unit), the score in 1/10000. *)
(***************************************************************************)
Unit == 1000000

\* 1 / (1 + variance / 16) with variance = (n * sum(d^2) - sum(d)^2) / n^2
\* Fault: a body without a non-blank line gets stability 0.
compute_indent_balance_EmptyIsZero(body) ==
    LET kept   == non_blank_lines(body)
        depths == [i \in 1..Len(kept) |-> leading_depth(kept[i])]
        n      == Len(depths)
        sum    == SumSeq(depths)
        sumsq  == SumSeq([i \in 1..n |-> depths[i] * depths[i]])
    IN  IF n = 0 THEN 0
        ELSE clamp((16 * n * n * Unit) \div (16 * n * n + n * sumsq - sum * sum),
                   0, Unit)
compute_indent_balance(body) ==
    LET kept   == non_blank_lines(body)
        depths == [i \in 1..Len(kept) |-> leading_depth(kept[i])]
        n      == Len(depths)
        sum    == SumSeq(depths)
        sumsq  == SumSeq([i \in 1..n |-> depths[i] * depths[i]])
    IN  IF n = 0 THEN Unit \div 2
        ELSE clamp((16 * n * n * Unit) \div (16 * n * n + n * sumsq - sum * sum),
                   0, Unit)

\* Fault: the config arm is that of python.
is_comment_ConfigHashOnly(trimmed, language) ==
    CASE language \in {"python", "config"} -> starts_with(trimmed, "#")
      [] language \in {"rust", "typescript"} ->
            starts_with(trimmed, "//") \/ starts_with(trimmed, "/*")
      [] OTHER -> starts_with(trimmed, "#") \/ starts_with(trimmed, "//")
is_comment(trimmed, language) ==
    CASE language = "python" -> starts_with(trimmed, "#")
      [] language = "rust" -> starts_with(trimmed, "//") \/ starts_with(trimmed, "/*")
      [] language = "typescript" ->
            starts_with(trimmed, "//") \/ starts_with(trimmed, "/*")
      [] language = "config" -> starts_with(trimmed, "#") \/ starts_with(trimmed, "//")
      [] OTHER -> starts_with(trimmed, "#") \/ starts_with(trimmed, "//")

compute_comment_ratio(body, language) ==
    LET kept          == non_blank_lines(body)
        total_lines   == Len(kept)
        comment_lines == Len(SelectSeq(kept, LAMBDA l : is_comment(trim(l), language)))
    IN  IF total_lines = 0 THEN 0
        ELSE (comment_lines * Unit) \div total_lines

structure_bonus(language) ==
    CASE language \in {"python", "rust", "typescript"} -> Unit \div 10
      [] language = "config" -> Unit \div 20
      [] OTHER -> 0

\* (score * 10000.0).round() / 10000.0, for a score in 1/100 of a Unit
\* Fault: the rounded value is not divided by 10000.0 again.
round_to_4_NotRescaled(score) == ((score + 5000) \div 10000) * 10000
round_to_4(score) == (score + 5000) \div 10000

\* body.lines().count().max(1), body.chars().count().max(1) and
\* body.split_whitespace().count().max(1): each over the whole body.
\* Fault: blank lines are skipped, as in compute_indent_balance.
line_count_NonBlank(body) == Max(Len(non_blank_lines(body)), 1)
line_count(body) == Max(Len(lines(body)), 1)
char_count(body) == Max(Len(body), 1)
token_count(body) == Max(split_whitespace_count(body), 1)

hygiene_score(body, language) ==
    LET indent_balance  == compute_indent_balance(body)
        comment_ratio   == compute_comment_ratio(body, language)
        token_density   ==
            clamp((token_count(body) * Unit) \div (line_count(body) * 8), 0, Unit)
        char_density    ==
            clamp((char_count(body) * Unit) \div (line_count(body) * 120), 0, Unit)
        indent_quality  == clamp(indent_balance, 0, Unit)
        comment_penalty ==
            clamp(Unit - (clamp(comment_ratio, 0, (8 * Unit) \div 10) * 10) \div 8,
                  0, Unit)
        \* 0.25 t + 0.25 c + 0.25 i + 0.15 p + bonus, in 1/100 of a Unit
        score == clamp(25 * token_density + 25 * char_density + 25 * indent_quality
                         + 15 * comment_penalty + 100 * structure_bonus(language),
                       0, 100 * Unit)
    IN  round_to_4(score)

(***************************************************************************)
(* Data types.                                                             *)
(***************************************************************************)
FragmentInput(path, idx, lns, body) ==
    [path |-> path, idx |-> idx, lines |-> lns, body |-> body]

\* Fault: the hash is taken over the path and the body.
FragmentStateNew_HashOfPathAndBody(input) ==
    [input         |-> input,
     hash          |-> compute_anchor_hash(input.path \o input.body),
     fingerprint   |-> compute_fingerprint(input.body),
     language      |-> detect_language(input.path, input.body),
     hygiene_score |-> None,
     status        |-> "Pending"]
FragmentStateNew(input) ==
    [input         |-> input,
     hash          |-> compute_anchor_hash(input.body),
     fingerprint   |-> compute_fingerprint(input.body),
     language      |-> detect_language(input.path, input.body),
     hygiene_score |-> None,
     status        |-> "Pending"]

\* Fault: an absent score is reported as 0.0.
to_report_ScoreDefaulted(state) ==
    [path          |-> state.input.path,
     idx           |-> state.input.idx,
     lines         |-> state.input.lines,
     hash          |-> state.hash,
     hygiene_score |-> IF IsSome(state.hygiene_score) THEN state.hygiene_score
                       ELSE Some(0),
     language      |-> state.language,
     fingerprint   |-> state.fingerprint,
     body_len      |-> Len(state.input.body)]
to_report(state) ==
    [path          |-> state.input.path,
     idx           |-> state.input.idx,
     lines         |-> state.input.lines,
     hash          |-> state.hash,
     hygiene_score |-> state.hygiene_score,
     language      |-> state.language,
     fingerprint   |-> state.fingerprint,
     body_len      |-> Len(state.input.body)]

CycleEvent(kind, state, score, prev, next, iteration) ==
    [event           |-> kind,
     path            |-> state.input.path,
     idx             |-> state.input.idx,
     lines           |-> state.input.lines,
     hash            |-> state.hash,
     hygiene_score   |-> score,
     anchor_prev     |-> prev,
     anchor_next     |-> next,
     language        |-> state.language,
     fingerprint     |-> state.fingerprint,
     iteration_index |-> iteration]

HarpoonCycleData(abs, pend, evs, iters, anch) ==
    [absorbed |-> abs, pending |-> pend, events |-> evs, iterations |-> iters,
     anchors |-> anch]

HarpoonCycleDataDefault == HarpoonCycleData(<<>>, <<>>, <<>>, 0, <<>>)

\* VecDeque operations of the loop.  A definition marked "Fault" is a seeded
\* fault of the definition that follows it, used to test that a property
\* depends on that definition.
\* Fault: the capped fragment is put back behind the others.
push_front_AtBack(q, x) == Append(q, x)
push_front(q, x) == <<x>> \o q

\* Fault: a requeued fragment is lost.
push_back_Dropped(q, x) == q
\* Fault: a requeued fragment goes to the front.
push_back_AtFront(q, x) == <<x>> \o q
\* Fault: the element is inserted behind the head, not behind the last.
push_back_Second(q, x) == IF q = <<>> THEN <<x>> ELSE <<Head(q), x>> \o Tail(q)
push_back(q, x) == Append(q, x)

pop_front(q) == Tail(q)
front(q) == Head(q)

\* states[idx], for a 0-based Rust position idx
StateAt(sts, idx) == sts[idx + 1]

\* Order-preserving fan-out of FragmentState::new over the batch.
compute_states(frags) == [i \in 1..Len(frags) |-> FragmentStateNew(frags[i])]

(***************************************************************************)
(* The inputs of the model.                                                *)
(***************************************************************************)
BodyDef == "def f():\n    return 1\n"
BodyEmpty == ""

Sources == {<<"A.PY", BodyDef>>, <<"notes", BodyEmpty>>}
IdxValues == {0, 1}
LinesValues == {"1-2"}

FragmentInputs ==
    {FragmentInput(src[1], i, l, src[2]) :
        src \in Sources, i \in IdxValues, l \in LinesValues}

Batches == UNION {[1..n -> FragmentInputs] : n \in 0..MaxLen}

\* -0.0001 and 0.0 (every score passes), 0.5 (BodyDef in A.PY scores 0.5354,
\* BodyEmpty 0.3083) and 1.0001 (no score passes)
Thresholds == {-1, 0, 5000, 10001}

Caps == {None} \cup {Some(c) : c \in 0..MaxCap}

\* No exposed operation is called.
NoApi == request = <<>> /\ response = <<>>

\* No Python host is involved.
NoGil == gil = <<>> /\ py_pc = "none" /\ py_result = <<>>

\* No FusionOrchestrator is involved.
NoFusion ==
    /\ fusion_state = <<>>
    /\ fusion_result = <<>>
    /\ fusion_calls = <<>>
    /\ fusion_lock = <<>>
    /\ fusion_stats = <<>>

\* No HostedAiConnector is involved.
NoHosted == allocations = <<>> /\ metrics = <<>> /\ hosted_ops = <<>> /\ sent = <<>>

\* No engine is built and no thread calls it: Spec follows one run_cycle call
\* with the states computed in input order.
NoEngine ==
    /\ target = "native"
    /\ new_args = <<<<>>, <<>>>>
    /\ engine = <<>>
    /\ callers = {}
    /\ calls = <<>>
    /\ tasks = {}
    /\ workers = {}

Init ==
    /\ NoEngine
    /\ NoApi
    /\ NoGil
    /\ NoFusion
    /\ NoHosted
    /\ fragments \in Batches
    /\ hygiene_threshold \in Thresholds
    /\ max_iterations \in Caps
    /\ pc = "call"
    /\ states = <<>>
    /\ queue = <<>>
    /\ anchors = <<>>
    /\ events = <<>>
    /\ absorbed_indices = <<>>
    /\ iterations = 0
    /\ last_anchor = None
    /\ result = None
    /\ evaluated = <<>>

(***************************************************************************)
(* EngineCore::run_cycle.                                                  *)
(***************************************************************************)
args == <<fragments, hygiene_threshold, max_iterations>>
locals == <<states, queue, anchors, events, absorbed_indices, iterations,
            last_anchor, evaluated>>

\* Fault: no early return, the empty batch goes through the loop.
ReturnEmptyEntersLoop ==
    /\ pc = "call"
    /\ fragments = <<>>
    /\ pc' = "loop"
    /\ UNCHANGED <<args, locals, result>>

\* if fragments.is_empty() { return HarpoonCycleData::default(); }
ReturnEmpty ==
    /\ pc = "call"
    /\ fragments = <<>>
    /\ result' = Some(HarpoonCycleDataDefault)
    /\ pc' = "done"
    /\ UNCHANGED <<args, locals>>

\* compute_states and the initialisation of the loop's locals
Start ==
    /\ pc = "call"
    /\ fragments /= <<>>
    /\ states' = compute_states(fragments)
    /\ queue' = [i \in 1..Len(fragments) |-> i - 1]
    /\ anchors' = <<>>
    /\ events' = <<>>
    /\ absorbed_indices' = <<>>
    /\ iterations' = 0
    /\ last_anchor' = None
    /\ pc' = "loop"
    /\ UNCHANGED <<args, result, evaluated>>

\* while let Some(idx) = queue.pop_front(): None ends the loop
LoopExit ==
    /\ pc = "loop"
    /\ queue = <<>>
    /\ pc' = "assemble"
    /\ UNCHANGED <<args, locals, result>>

\* Fault: the cap test is `iterations > limit`.
CapReachedOffByOne == IsSome(max_iterations) /\ iterations > Unwrap(max_iterations)
CapReached == IsSome(max_iterations) /\ iterations >= Unwrap(max_iterations)

\* if iterations >= limit { queue.push_front(idx); break; }
CapBreak ==
    /\ pc = "loop"
    /\ queue /= <<>>
    /\ CapReached
    /\ queue' = push_front(pop_front(queue), front(queue))
    /\ pc' = "assemble"
    /\ UNCHANGED <<args, states, anchors, events, absorbed_indices, iterations,
                   last_anchor, result, evaluated>>

\* The loop body from `iterations += 1` on is entered: a position was popped
\* and the cap, if any, is not reached.  The model explores at most MaxEvals
\* evaluations of one cycle (without a cap the loop need not end).
CanEvaluate ==
    /\ pc = "loop"
    /\ queue /= <<>>
    /\ ~CapReached
    /\ iterations < MaxEvals

\* let score = hygiene_score(&state.input.body, &state.language);
\* Fault: the score grows with the number of evaluations made so far.
ScoreOf_GrowsWithIterations(idx) ==
    hygiene_score(StateAt(states, idx).input.body, StateAt(states, idx).language)
        + 2000 * iterations
ScoreOf(idx) ==
    hygiene_score(StateAt(states, idx).input.body, StateAt(states, idx).language)

\* The event of the absorbing branch; `iterations` is already incremented there.
\* Fault: last_anchor is updated before the event is built.
absorbed_event_PrevIsSelf(state, score) ==
    CycleEvent("fragment_absorbed", state, score, Some(state.hash), Some(state.hash),
               iterations + 1)
\* Fault: anchor_next is filled as in the requeueing branch.
absorbed_event_NextIsPrev(state, score) ==
    CycleEvent("fragment_absorbed", state, score, last_anchor, last_anchor,
               iterations + 1)
absorbed_event(state, score) ==
    CycleEvent("fragment_absorbed", state, score, last_anchor, Some(state.hash),
               iterations + 1)

\* The event of the requeueing branch.
\* Fault: iteration_index is taken before the increment.
requeued_event_ZeroBased(state, score) ==
    CycleEvent("fragment_requeued", state, score, last_anchor, last_anchor, iterations)
\* Fault: anchor_next is filled as in the absorbing branch.
requeued_event_NextIsSelf(state, score) ==
    CycleEvent("fragment_requeued", state, score, last_anchor, Some(state.hash),
               iterations + 1)
requeued_event(state, score) ==
    CycleEvent("fragment_requeued", state, score, last_anchor, last_anchor,
               iterations + 1)

\* Fault: the new anchor is inserted at the head of anchors.
AbsorbAnchorFront ==
    /\ CanEvaluate
    /\ LET idx   == front(queue)
           state == StateAt(states, idx)
           score == ScoreOf(idx)
       IN  /\ score >= hygiene_threshold
           /\ iterations' = iterations + 1
           /\ states' = [states EXCEPT ![idx + 1].hygiene_score = Some(score),
                                       ![idx + 1].status = "Absorbed"]
           /\ queue' = pop_front(queue)
           /\ anchors' = <<state.hash>> \o anchors
           /\ absorbed_indices' = Append(absorbed_indices, idx)
           /\ events' = Append(events, absorbed_event(state, score))
           /\ last_anchor' = Some(state.hash)
           /\ evaluated' = Append(evaluated, idx)
    /\ UNCHANGED <<args, pc, result>>

\* Fault: the absorbing branch also pushes the position back.
AbsorbKeepsQueued ==
    /\ CanEvaluate
    /\ LET idx   == front(queue)
           state == StateAt(states, idx)
           score == ScoreOf(idx)
       IN  /\ score >= hygiene_threshold
           /\ iterations' = iterations + 1
           /\ states' = [states EXCEPT ![idx + 1].hygiene_score = Some(score),
                                       ![idx + 1].status = "Absorbed"]
           /\ queue' = push_back(pop_front(queue), idx)
           /\ anchors' = Append(anchors, state.hash)
           /\ absorbed_indices' = Append(absorbed_indices, idx)
           /\ events' = Append(events, absorbed_event(state, score))
           /\ last_anchor' = Some(state.hash)
           /\ evaluated' = Append(evaluated, idx)
    /\ UNCHANGED <<args, pc, result>>

\* if score >= hygiene_threshold { ... }
Absorb ==
    /\ CanEvaluate
    /\ LET idx   == front(queue)
           state == StateAt(states, idx)
           score == ScoreOf(idx)
       IN  /\ score >= hygiene_threshold
           /\ iterations' = iterations + 1
           /\ states' = [states EXCEPT ![idx + 1].hygiene_score = Some(score),
                                       ![idx + 1].status = "Absorbed"]
           /\ queue' = pop_front(queue)
           /\ anchors' = Append(anchors, state.hash)
           /\ absorbed_indices' = Append(absorbed_indices, idx)
           /\ events' = Append(events, absorbed_event(state, score))
           /\ last_anchor' = Some(state.hash)
           /\ evaluated' = Append(evaluated, idx)
    /\ UNCHANGED <<args, pc, result>>

\* Fault: the score is stored only when the fragment is absorbed.
RequeueScoreNotStored ==
    /\ CanEvaluate
    /\ LET idx   == front(queue)
           state == StateAt(states, idx)
           score == ScoreOf(idx)
       IN  /\ ~(score >= hygiene_threshold)
           /\ iterations' = iterations + 1
           /\ states' = [states EXCEPT ![idx + 1].status = "Requeued"]
           /\ events' = Append(events, requeued_event(state, score))
           /\ queue' = push_back(pop_front(queue), idx)
           /\ evaluated' = Append(evaluated, idx)
    /\ UNCHANGED <<args, pc, result, anchors, absorbed_indices, last_anchor>>

\* Fault: the requeueing branch does not count as an iteration.
RequeueNotCounted ==
    /\ CanEvaluate
    /\ LET idx   == front(queue)
           state == StateAt(states, idx)
           score == ScoreOf(idx)
       IN  /\ ~(score >= hygiene_threshold)
           /\ iterations' = iterations
           /\ states' = [states EXCEPT ![idx + 1].hygiene_score = Some(score),
                                       ![idx + 1].status = "Requeued"]
           /\ events' = Append(events, requeued_event(state, score))
           /\ queue' = push_back(pop_front(queue), idx)
           /\ evaluated' = Append(evaluated, idx)
    /\ UNCHANGED <<args, pc, result, anchors, absorbed_indices, last_anchor>>

\* else { ... queue.push_back(idx); }
Requeue ==
    /\ CanEvaluate
    /\ LET idx   == front(queue)
           state == StateAt(states, idx)
           score == ScoreOf(idx)
       IN  /\ ~(score >= hygiene_threshold)
           /\ iterations' = iterations + 1
           /\ states' = [states EXCEPT ![idx + 1].hygiene_score = Some(score),
                                       ![idx + 1].status = "Requeued"]
           /\ events' = Append(events, requeued_event(state, score))
           /\ queue' = push_back(pop_front(queue), idx)
           /\ evaluated' = Append(evaluated, idx)
    /\ UNCHANGED <<args, pc, result, anchors, absorbed_indices, last_anchor>>

\* Fault: pending is rebuilt from the states in input order, not from the queue.
AssemblePendingInputOrder ==
    /\ pc = "assemble"
    /\ LET absorbed == [k \in 1..Len(absorbed_indices) |->
                           to_report(StateAt(states, absorbed_indices[k]))]
           pending  == [k \in 1..Len(SelectSeq(states, LAMBDA st : st.status /= "Absorbed")) |->
                           to_report(SelectSeq(states, LAMBDA st : st.status /= "Absorbed")[k])]
       IN  result' = Some(HarpoonCycleData(absorbed, pending, events, iterations, anchors))
    /\ pc' = "done"
    /\ UNCHANGED <<args, locals>>

\* The reports and the returned HarpoonCycleData
Assemble ==
    /\ pc = "assemble"
    /\ LET absorbed == [k \in 1..Len(absorbed_indices) |->
                           to_report(StateAt(states, absorbed_indices[k]))]
           pending  == [k \in 1..Len(queue) |-> to_report(StateAt(states, queue[k]))]
       IN  result' = Some(HarpoonCycleData(absorbed, pending, events, iterations, anchors))
    /\ pc' = "done"
    /\ UNCHANGED <<args, locals>>

Next ==
    \/ ReturnEmpty /\ UNCHANGED outside_cycle
    \/ Start /\ UNCHANGED outside_cycle
    \/ LoopExit /\ UNCHANGED outside_cycle
    \/ CapBreak /\ UNCHANGED outside_cycle
    \/ Absorb /\ UNCHANGED outside_cycle
    \/ Requeue /\ UNCHANGED outside_cycle
    \/ Assemble /\ UNCHANGED outside_cycle

Spec == Init /\ [][Next]_vars

(***************************************************************************)
(* Properties of run_cycle.                                                *)
(***************************************************************************)
Range(q) == {q[k] : k \in 1..Len(q)}
Indices(q) == 1..Len(q)
Returned == pc = "done" /\ IsSome(result)
Res == Unwrap(result)
IdxSet(reports) == {reports[k].idx : k \in 1..Len(reports)}
DistinctIdx == \A i, j \in Indices(fragments) : i /= j => fragments[i].idx /= fragments[j].idx
AbsorbedAt == {k \in Indices(events) : events[k].event = "fragment_absorbed"}
RequeuedAt == {k \in Indices(events) : events[k].event = "fragment_requeued"}
Positions == 0..(Len(fragments) - 1)

\* C1 (as claimed): in every returned result the idx values of `absorbed` and
\* of `pending` are disjoint sets whose union is the set of idx values of
\* the input batch.
C1_IdxPartition ==
    Returned =>
        /\ IdxSet(Res.absorbed) \cap IdxSet(Res.pending) = {}
        /\ IdxSet(Res.absorbed) \cup IdxSet(Res.pending) = IdxSet(fragments)

\* C1 (amended): in every returned result the union of the idx values of
\* `absorbed` and `pending` is the set of idx values of the input batch, and
\* the two sets are disjoint whenever the idx values of the batch are
\* pairwise distinct.
C1_IdxPartitionDistinct ==
    Returned =>
        /\ IdxSet(Res.absorbed) \cup IdxSet(Res.pending) = IdxSet(fragments)
        /\ DistinctIdx => IdxSet(Res.absorbed) \cap IdxSet(Res.pending) = {}

C1_Witness ==
    /\ Returned
    /\ DistinctIdx
    /\ Res.absorbed /= <<>>
    /\ Res.pending /= <<>>
    /\ RequeuedAt /= {}

\* C2: in every state of the loop and in every returned result, anchors has
\* one entry per absorbed fragment and anchors[k] is the hash of the k-th
\* fragment absorbed: of the k-th fragment_absorbed event, of the fragment at
\* absorbed_indices[k], and of absorbed[k] in the result.
C2_AnchorsFollowAbsorption ==
    /\ Len(anchors) = Len(absorbed_indices)
    /\ Len(anchors) = Cardinality(AbsorbedAt)
    /\ \A k \in Indices(anchors) :
          /\ anchors[k] = StateAt(states, absorbed_indices[k]).hash
          /\ \E e \in AbsorbedAt :
                /\ Cardinality({j \in AbsorbedAt : j <= e}) = k
                /\ events[e].hash = anchors[k]
                /\ evaluated[e] = absorbed_indices[k]
    /\ Returned =>
          /\ Len(Res.anchors) = Len(Res.absorbed)
          /\ \A k \in Indices(Res.anchors) : Res.anchors[k] = Res.absorbed[k].hash
          /\ Res.anchors = anchors

\* Two fragments absorbed after the first fragment of the batch was requeued:
\* the first anchor is not the hash of the first input.
C2_Witness ==
    /\ Returned
    /\ Len(Res.anchors) >= 2
    /\ absorbed_indices[1] /= 0
    /\ Res.anchors[1] /= StateAt(states, 0).hash
    /\ Res.pending /= <<>>

\* C3: with max_iterations = Some(cap) the iterations counter never exceeds
\* cap in any state of the loop, and the returned iterations is at most cap.
C3_IterationsWithinCap ==
    IsSome(max_iterations) =>
        /\ iterations <= Unwrap(max_iterations)
        /\ Returned => Res.iterations <= Unwrap(max_iterations)

\* A capped cycle that used its whole budget and left fragments pending.
C3_Witness ==
    /\ Returned
    /\ IsSome(max_iterations)
    /\ Unwrap(max_iterations) >= 2
    /\ Res.iterations = Unwrap(max_iterations)
    /\ Res.pending /= <<>>

\* C4: a step taken from a loop state whose queue is not empty and whose cap
\* is reached ends the loop and changes nothing else: the queue is as before
\* the pop (the popped position is at its front again), iterations, events
\* and states (status and hygiene_score) are unchanged; and in the result
\* returned after it the first pending report is that fragment's.
C4_CapBreakStep ==
    (pc = "loop" /\ queue /= <<>> /\ CapReached) =>
        /\ pc' = "assemble"
        /\ queue' = queue
        /\ Head(queue') = Head(queue)
        /\ iterations' = iterations
        /\ events' = events
        /\ states' = states
        /\ anchors' = anchors
        /\ absorbed_indices' = absorbed_indices
        /\ last_anchor' = last_anchor

C4_CapBreakResult ==
    (Returned /\ fragments /= <<>> /\ CapReached /\ queue /= <<>>) =>
        /\ Res.pending /= <<>>
        /\ Res.pending[1] = to_report(StateAt(states, Head(queue)))
        /\ Res.iterations = Unwrap(max_iterations)
        /\ Len(Res.events) = Unwrap(max_iterations)
        /\ (Head(queue) \notin Range(evaluated)) =>
              /\ Res.pending[1].hygiene_score = None
              /\ StateAt(states, Head(queue)).status = "Pending"

C4_CapBreakPutsBackAtFront == [][C4_CapBreakStep]_vars /\ []C4_CapBreakResult

\* The cap stopped the loop at a fragment that was never scored, with other
\* fragments behind it in the queue.
C4_Witness ==
    /\ Returned
    /\ CapReached
    /\ Len(queue) >= 2
    /\ Head(queue) \notin Range(evaluated)
    /\ queue[2] \in Range(evaluated)
    /\ Res.pending[1].hygiene_score = None

\* C5: one event per evaluation: in every state len(events) = iterations and
\* the k-th event has iteration_index = k; the k-th event describes the
\* fragment evaluated k-th, and a fragment evaluated n times has n
\* fragment_requeued events, less the one evaluation that absorbed it.
C5_OneEventPerEvaluation ==
    /\ Len(events) = iterations
    /\ Len(evaluated) = iterations
    /\ \A k \in Indices(events) :
          /\ events[k].iteration_index = k
          /\ events[k].hash = StateAt(states, evaluated[k]).hash
          /\ events[k].idx = StateAt(states, evaluated[k]).input.idx
          /\ events[k].path = StateAt(states, evaluated[k]).input.path
    /\ \A p \in Positions :
          Cardinality({k \in RequeuedAt : evaluated[k] = p})
            = Cardinality({k \in Indices(evaluated) : evaluated[k] = p})
                - (IF p \in Range(absorbed_indices) THEN 1 ELSE 0)
    /\ Returned => (Res.events = events /\ Res.iterations = Len(Res.events))

\* A fragment requeued twice, after an absorption.
C5_Witness ==
    /\ Returned
    /\ \E p \in Positions :
          Cardinality({k \in RequeuedAt : evaluated[k] = p}) = 2
    /\ AbsorbedAt /= {}

\* The hash of the fragment absorbed last among the first k - 1 events.
LastAbsorbedBefore(k) ==
    LET prior == {j \in AbsorbedAt : j < k}
    IN  IF prior = {} THEN None
        ELSE Some(events[CHOOSE j \in prior : \A i \in prior : i <= j].hash)

\* A step that appended an event of the given kind.
Appended(kind) ==
    /\ Len(events') = Len(events) + 1
    /\ events'[Len(events')].event = kind

\* C6: every fragment_absorbed event has anchor_prev = the hash of the
\* fragment absorbed last before it (None if there is none) and anchor_next =
\* the hash of the fragment it absorbs; the absorbing step takes anchor_prev
\* from last_anchor and leaves last_anchor at that hash.
C6_AbsorbedEvents ==
    /\ \A k \in AbsorbedAt :
          /\ events[k].anchor_prev = LastAbsorbedBefore(k)
          /\ events[k].anchor_next = Some(events[k].hash)
          /\ events[k].hash = StateAt(states, evaluated[k]).hash
    /\ last_anchor = LastAbsorbedBefore(Len(events) + 1)

C6_AbsorbStep ==
    Appended("fragment_absorbed") =>
        /\ events'[Len(events')].anchor_prev = last_anchor
        /\ events'[Len(events')].anchor_next = Some(StateAt(states, Head(queue)).hash)
        /\ last_anchor' = Some(StateAt(states, Head(queue)).hash)

C6_AbsorbedAnchorLink == [][C6_AbsorbStep]_vars /\ []C6_AbsorbedEvents

\* An absorption that follows the absorption of a different body.
C6_Witness ==
    /\ Returned
    /\ \E k \in AbsorbedAt :
          /\ IsSome(events[k].anchor_prev)
          /\ events[k].anchor_prev /= events[k].anchor_next
    /\ \E k \in AbsorbedAt : events[k].anchor_prev = None

\* C7: every fragment_requeued event has anchor_prev = anchor_next = the hash
\* of the fragment absorbed last before it (None if there is none), and the
\* requeueing step leaves anchors, last_anchor and the absorbed list as they
\* were.
C7_RequeuedEvents ==
    \A k \in RequeuedAt :
        /\ events[k].anchor_prev = LastAbsorbedBefore(k)
        /\ events[k].anchor_next = events[k].anchor_prev

C7_RequeueStep ==
    Appended("fragment_requeued") =>
        /\ anchors' = anchors
        /\ last_anchor' = last_anchor
        /\ absorbed_indices' = absorbed_indices
        /\ events'[Len(events')].anchor_prev = last_anchor
        /\ events'[Len(events')].anchor_next = last_anchor

C7_RequeueKeepsAnchors == [][C7_RequeueStep]_vars /\ []C7_RequeuedEvents

\* One requeue before any absorption and one after an absorption.
C7_Witness ==
    /\ Returned
    /\ \E k \in RequeuedAt : events[k].anchor_prev = None
    /\ \E k \in RequeuedAt :
          /\ IsSome(events[k].anchor_prev)
          /\ Unwrap(events[k].anchor_prev) /= events[k].hash

\* C8: an absorbed input position is not in the queue, keeps the status
\* Absorbed, has exactly one fragment_absorbed event, and no event of any
\* kind after it.
C8_AbsorbedNow ==
    /\ \A p \in Range(absorbed_indices) :
          /\ p \notin Range(queue)
          /\ StateAt(states, p).status = "Absorbed"
          /\ Cardinality({k \in AbsorbedAt : evaluated[k] = p}) = 1
    /\ \A k \in AbsorbedAt :
          /\ evaluated[k] \in Range(absorbed_indices)
          /\ \A j \in Indices(evaluated) : j > k => evaluated[j] /= evaluated[k]

C8_AbsorbedStays ==
    \A p \in Range(absorbed_indices) :
        /\ p \in Range(absorbed_indices')
        /\ p \notin Range(queue')
        /\ StateAt(states', p).status = "Absorbed"

C8_AbsorbedIsTerminal == [][C8_AbsorbedStays]_vars /\ []C8_AbsorbedNow

\* An absorption followed by two evaluations of other fragments.
C8_Witness ==
    /\ Returned
    /\ \E k \in AbsorbedAt : k + 2 <= Len(events)

\* C9: the queue starts with every input position in input order; each
\* evaluation takes the front of the queue, an absorbed position leaves the
\* queue and a requeued one goes to its back; so between two evaluations of
\* one position every other position not yet absorbed at the first of them
\* is evaluated.
C9_QueueNow ==
    /\ (pc = "loop" /\ iterations = 0) =>
          queue = [i \in 1..Len(fragments) |-> i - 1]
    /\ \A j, k \in Indices(evaluated) :
          (j < k /\ evaluated[j] = evaluated[k]) =>
              \A q \in Positions :
                  (q /= evaluated[j] /\ ~\E a \in AbsorbedAt : a <= j /\ evaluated[a] = q)
                      => \E m \in (j + 1)..(k - 1) : evaluated[m] = q

C9_QueueStep ==
    /\ Len(evaluated') = Len(evaluated) + 1 =>
          evaluated'[Len(evaluated')] = Head(queue)
    /\ Appended("fragment_requeued") => queue' = Append(Tail(queue), Head(queue))
    /\ Appended("fragment_absorbed") => queue' = Tail(queue)

C9_QueueIsFifo == [][C9_QueueStep]_vars /\ []C9_QueueNow

\* A fragment evaluated a second time after the two others were evaluated.
C9_Witness ==
    /\ Len(evaluated) >= 4
    /\ evaluated[1] = evaluated[4]
    /\ evaluated[2] /= evaluated[3]
    /\ Len(queue) = 3

\* The position whose absorption is the k-th fragment_absorbed event.
KthAbsorbed(k) ==
    evaluated[CHOOSE e \in AbsorbedAt : Cardinality({j \in AbsorbedAt : j <= e}) = k]

\* C10: in the result of a non-empty batch, absorbed[k] is the report of the
\* fragment absorbed k-th and pending[k] is the report of the k-th position
\* of the queue as the loop left it, the queue holding exactly the positions
\* that were not absorbed.
C10_ResultLists ==
    (Returned /\ fragments /= <<>>) =>
        /\ Len(Res.absorbed) = Cardinality(AbsorbedAt)
        /\ \A k \in Indices(Res.absorbed) :
              Res.absorbed[k] = to_report(StateAt(states, KthAbsorbed(k)))
        /\ Len(Res.pending) = Len(queue)
        /\ \A k \in Indices(Res.pending) :
              Res.pending[k] = to_report(StateAt(states, queue[k]))
        /\ Range(queue) = Positions \ {evaluated[e] : e \in AbsorbedAt}

\* One fragment absorbed and two left pending in rotated order, with
\* different reports.
C10_Witness ==
    /\ Returned
    /\ Len(Res.absorbed) >= 1
    /\ Len(Res.pending) >= 2
    /\ queue[1] > queue[2]
    /\ Res.pending[1] /= Res.pending[2]

\* The score the cycle gives the i-th fragment of the batch (1-based).
FragmentScore(i) ==
    hygiene_score(fragments[i].body, detect_language(fragments[i].path, fragments[i].body))

Passing == {i \in Indices(fragments) : FragmentScore(i) >= hygiene_threshold}
Failing == {i \in Indices(fragments) : ~(FragmentScore(i) >= hygiene_threshold)}

\* C11: on an empty batch run_cycle returns the zeroed result (iterations 0,
\* absorbed, pending, events and anchors empty) for every threshold and cap,
\* without computing states or entering the loop.
C11_EmptyBatch ==
    fragments = <<>> =>
        /\ pc \in {"call", "done"}
        /\ states = <<>>
        /\ queue = <<>>
        /\ iterations = 0
        /\ events = <<>>
        /\ evaluated = <<>>
        /\ pc = "done" =>
              result = Some([absorbed |-> <<>>, pending |-> <<>>, events |-> <<>>,
                             iterations |-> 0, anchors |-> <<>>])

C11_Witness ==
    /\ fragments = <<>>
    /\ Returned
    /\ max_iterations = None
    /\ hygiene_threshold > 10000

\* The number of steps a cycle with max_iterations = Some(c) can still take.
C12_Measure ==
    CASE pc = "call" -> Unwrap(max_iterations) + 3
      [] pc = "loop" -> (Unwrap(max_iterations) - iterations) + 2
      [] pc = "assemble" -> 1
      [] pc = "done" -> 0

\* One of the guards of ReturnEmpty, Start, LoopExit, CapBreak, Absorb, Requeue
\* or Assemble holds (the two branches of the score test cover CanEvaluate).
C12_SomeGuardHolds ==
    \/ pc = "call"
    \/ pc = "assemble"
    \/ pc = "loop" /\ (queue = <<>> \/ CapReached \/ CanEvaluate)

\* C12: with max_iterations = Some(c) every cycle returns: until it has
\* returned the guard of some step holds, every step lowers a measure that
\* is never negative, and the loop is left with the queue empty or with
\* iterations at the cap.
C12_CanStepOrDone ==
    IsSome(max_iterations) =>
        /\ C12_Measure >= 0
        /\ (pc = "done" /\ IsSome(result)) \/ C12_SomeGuardHolds
        /\ (pc \in {"assemble", "done"} /\ fragments /= <<>>) =>
              (queue = <<>> \/ iterations = Unwrap(max_iterations))

C12_StepLowersMeasure ==
    IsSome(max_iterations) => C12_Measure' < C12_Measure

C12_CappedCycleTerminates == [][C12_StepLowersMeasure]_vars /\ []C12_CanStepOrDone

\* A capped cycle stopped by the cap after requeueing, fragments still queued.
C12_Witness ==
    /\ Returned
    /\ IsSome(max_iterations)
    /\ CapReached
    /\ queue /= <<>>
    /\ Cardinality(RequeuedAt) >= 2

\* C13: with max_iterations = None and a fragment whose score is below the
\* threshold the cycle never returns: in every state after the call the loop
\* is running, the failing fragments are in the queue, and the loop body can
\* be entered once more, and every step is an evaluation that adds one to
\* iterations (up to MaxEvals, the number of evaluations the model explores).
C13_Premise == max_iterations = None /\ Failing /= {}

C13_StillLooping ==
    (C13_Premise /\ pc /= "call") =>
        /\ pc = "loop"
        /\ result = None
        /\ queue /= <<>>
        /\ \A i \in Failing : (i - 1) \in Range(queue)
        /\ ~CapReached
        /\ iterations < MaxEvals => CanEvaluate

C13_EveryStepEvaluates ==
    (C13_Premise /\ pc = "loop") => (pc' = "loop" /\ iterations' = iterations + 1)

C13_UncappedNeverReturns == [][C13_EveryStepEvaluates]_vars /\ []C13_StillLooping

\* An uncapped cycle that absorbed one fragment and is still requeueing.
C13_Witness ==
    /\ C13_Premise
    /\ pc = "loop"
    /\ iterations = MaxEvals
    /\ AbsorbedAt /= {}
    /\ Len(queue) >= 2

\* C14: with a threshold above 1 and max_iterations = Some(c), the result of
\* a non-empty batch has no absorbed report and no anchor, iterations = c,
\* exactly c events, all fragment_requeued with anchor_prev = anchor_next =
\* None, and one pending report for every input position.
C14_ThresholdAboveOne ==
    (Returned /\ fragments /= <<>> /\ hygiene_threshold > 10000 /\ IsSome(max_iterations)) =>
        /\ Res.absorbed = <<>>
        /\ Res.anchors = <<>>
        /\ Res.iterations = Unwrap(max_iterations)
        /\ Len(Res.events) = Unwrap(max_iterations)
        /\ \A k \in Indices(Res.events) :
              /\ Res.events[k].event = "fragment_requeued"
              /\ Res.events[k].anchor_prev = None
              /\ Res.events[k].anchor_next = None
        /\ Len(Res.pending) = Len(fragments)
        /\ Range(queue) = Positions
        /\ \A k \in Indices(Res.pending) :
              Res.pending[k] = to_report(StateAt(states, queue[k]))

C14_Witness ==
    /\ Returned
    /\ hygiene_threshold > 10000
    /\ max_iterations = Some(MaxCap)
    /\ Len(fragments) = 3
    /\ fragments[1].body /= fragments[2].body

\* C15: with a threshold at or below 0 and no cap, or a cap of at least the
\* batch size, every fragment is absorbed at its first evaluation: iterations
\* is the batch size, the k-th event absorbs the k-th input at iteration k,
\* pending is empty, and absorbed and anchors follow input order.
C15_ThresholdAtMostZero ==
    (/\ Returned
     /\ hygiene_threshold <= 0
     /\ (max_iterations = None \/ Unwrap(max_iterations) >= Len(fragments))) =>
        /\ Res.iterations = Len(fragments)
        /\ Len(Res.events) = Len(fragments)
        /\ Res.pending = <<>>
        /\ Len(Res.absorbed) = Len(fragments)
        /\ Len(Res.anchors) = Len(fragments)
        /\ \A k \in Indices(fragments) :
              /\ Res.events[k].event = "fragment_absorbed"
              /\ Res.events[k].iteration_index = k
              /\ Res.events[k].idx = fragments[k].idx
              /\ Res.events[k].hash = compute_anchor_hash(fragments[k].body)
              /\ Res.anchors[k] = compute_anchor_hash(fragments[k].body)
              /\ Res.absorbed[k].idx = fragments[k].idx
              /\ Res.absorbed[k].path = fragments[k].path
              /\ Res.absorbed[k].hash = compute_anchor_hash(fragments[k].body)
              /\ Res.absorbed[k].hygiene_score = Some(FragmentScore(k))

\* A threshold below 0, a cap equal to the batch size, different bodies.
C15_Witness ==
    /\ Returned
    /\ hygiene_threshold < 0
    /\ Len(fragments) = 3
    /\ max_iterations = Some(3)
    /\ fragments[1].body /= fragments[2].body

\* C16: two fragments, the first passing and the second failing the
\* threshold, max_iterations = Some(3): the events are absorbed(frag0) at 1,
\* requeued(frag1) at 2 and at 3; the next pop, at iterations = 3, leaves
\* frag1 at the front and stops; the result has iterations = 3, absorbed =
\* [frag0], pending = [frag1], anchors = [hash(frag0)].
C16_Premise ==
    /\ Len(fragments) = 2
    /\ Passing = {1}
    /\ Failing = {2}
    /\ max_iterations = Some(3)

C16_Result ==
    (C16_Premise /\ Returned) =>
        /\ evaluated = <<0, 1, 1>>
        /\ [k \in 1..3 |-> Res.events[k].event]
             = <<"fragment_absorbed", "fragment_requeued", "fragment_requeued">>
        /\ [k \in 1..3 |-> Res.events[k].iteration_index] = <<1, 2, 3>>
        /\ [k \in 1..3 |-> Res.events[k].idx]
             = <<fragments[1].idx, fragments[2].idx, fragments[2].idx>>
        /\ Len(Res.events) = 3
        /\ Res.iterations = 3
        /\ Len(Res.absorbed) = 1
        /\ Res.absorbed[1] = to_report(StateAt(states, 0))
        /\ Res.absorbed[1].idx = fragments[1].idx
        /\ Len(Res.pending) = 1
        /\ Res.pending[1] = to_report(StateAt(states, 1))
        /\ Res.pending[1].idx = fragments[2].idx
        /\ Res.anchors = <<compute_anchor_hash(fragments[1].body)>>

C16_FourthPop ==
    (C16_Premise /\ pc = "loop" /\ iterations = 3) =>
        /\ queue = <<1>>
        /\ pc' = "assemble"
        /\ queue' = <<1>>
        /\ events' = events
        /\ iterations' = 3

C16_ScenarioB == [][C16_FourthPop]_vars /\ []C16_Result

C16_Witness ==
    /\ C16_Premise
    /\ Returned
    /\ fragments[1].idx = 0
    /\ fragments[2].idx = 1

(***************************************************************************)
(* run_cycle as a function of its arguments: the same statements as the    *)
(* actions above, over a record of the call's locals.  The engine below    *)
(* runs several calls at once, each on its own record.                     *)
(***************************************************************************)
\* let mut queue .. let mut last_anchor, from the states compute_states returned
CycleLocals(sts) ==
    [pc               |-> "loop",
     states           |-> sts,
     queue            |-> [i \in 1..Len(sts) |-> i - 1],
     anchors          |-> <<>>,
     events           |-> <<>>,
     absorbed_indices |-> <<>>,
     iterations       |-> 0,
     last_anchor      |-> None]

\* if let Some(limit) = max_iterations { if iterations >= limit
cap_reached(l, cap) == IsSome(cap) /\ l.iterations >= Unwrap(cap)

\* One pass of `while let Some(idx) = queue.pop_front()`.
loop_step(l, thr, cap) ==
    IF l.queue = <<>>
    THEN [l EXCEPT !.pc = "assemble"]
    ELSE
    LET idx == front(l.queue)
    IN  IF cap_reached(l, cap)
        THEN [l EXCEPT !.queue = push_front(pop_front(l.queue), idx),
                       !.pc = "assemble"]
        ELSE
        LET state == StateAt(l.states, idx)
            score == hygiene_score(state.input.body, state.language)
            n     == l.iterations + 1
        IN  IF score >= thr
            THEN [l EXCEPT
                    !.iterations = n,
                    !.states[idx + 1].hygiene_score = Some(score),
                    !.states[idx + 1].status = "Absorbed",
                    !.queue = pop_front(l.queue),
                    !.anchors = Append(l.anchors, state.hash),
                    !.absorbed_indices = Append(l.absorbed_indices, idx),
                    !.events = Append(l.events,
                                  CycleEvent("fragment_absorbed", state, score,
                                             l.last_anchor, Some(state.hash), n)),
                    !.last_anchor = Some(state.hash)]
            ELSE [l EXCEPT
                    !.iterations = n,
                    !.states[idx + 1].hygiene_score = Some(score),
                    !.states[idx + 1].status = "Requeued",
                    !.events = Append(l.events,
                                  CycleEvent("fragment_requeued", state, score,
                                             l.last_anchor, l.last_anchor, n)),
                    !.queue = push_back(pop_front(l.queue), idx)]

\* The reports and the returned HarpoonCycleData
assemble(l) ==
    HarpoonCycleData(
        [k \in 1..Len(l.absorbed_indices) |->
            to_report(StateAt(l.states, l.absorbed_indices[k]))],
        [k \in 1..Len(l.queue) |-> to_report(StateAt(l.states, l.queue[k]))],
        l.events, l.iterations, l.anchors)

\* The loop body would be entered with MaxEvals evaluations already made.
beyond_explored(l, cap) ==
    l.pc = "loop" /\ l.queue /= <<>> /\ ~cap_reached(l, cap) /\ l.iterations >= MaxEvals

\* The loop run to its end: Some(result), or None if the loop is still
\* running after MaxEvals evaluations.
RECURSIVE run_loop(_, _, _)
run_loop(l, thr, cap) ==
    IF l.pc = "assemble" THEN Some(assemble(l))
    ELSE IF beyond_explored(l, cap) THEN None
    ELSE run_loop(loop_step(l, thr, cap), thr, cap)

\* run_cycle with the states computed in input order, one after the other
run_cycle(frags, thr, cap) ==
    IF frags = <<>>
    THEN Some(HarpoonCycleDataDefault)
    ELSE run_loop(CycleLocals(compute_states(frags)), thr, cap)

\* The actions of Spec and run_cycle agree on every returned result.
ResultIsRunCycle ==
    Returned => result = run_cycle(fragments, hygiene_threshold, max_iterations)

(***************************************************************************)
(* The engine: HarpoonEngine::new_native / EngineCore::new, and run_cycle  *)
(* called by one or more threads on the same Arc<EngineCore>.  On native   *)
(* targets compute_states runs on the engine's rayon pool: the indexed     *)
(* parallel iterator over the batch is split into contiguous chunks of at  *)
(* least max_batch items while a chunk is at least twice that long, each   *)
(* chunk is run by one pool thread item by item, and collect() places the  *)
(* state of item i in slot i of the output.                                *)
(***************************************************************************)
MaxThreads == 2
MaxBatch == 2
DefaultMaxBatch == 64

\* Result<T, E>
Ok(v) == [ok |-> TRUE, value |-> v]
Err(e) == [ok |-> FALSE, value |-> e]

\* #[error(..)] of EngineError, as err.to_string() gives it
ZeroThreads == "thread pool requires at least one thread"
ThreadPoolBuild(err) == "failed to build rayon thread pool: " \o err

\* What ThreadPoolBuilder::build() can report.
PoolBuildErrors == {"The global thread pool has already been initialized.",
                    "Resource temporarily unavailable (os error 11)"}

\* EngineCore { max_batch, configured_threads, pool }; `threads` is the
\* number of threads of the pool (pool.current_num_threads(), 1 on wasm32)
EngineCore(mb, nt, n) == [max_batch |-> mb, configured_threads |-> nt, threads |-> n]

\* max_batch.unwrap_or(64)
unwrap_or(opt, default) == IF IsSome(opt) THEN Unwrap(opt) ELSE default

\* Fault: the test for Some(0) is missing.
is_zero_threads_Never(num_threads) == FALSE
\* matches!(num_threads, Some(0))
is_zero_threads(num_threads) == IsSome(num_threads) /\ Unwrap(num_threads) = 0

\* The sizes a pool can get: the requested one, else rayon's default (the
\* number of CPUs, which is also what a request for 0 threads means to rayon).
PoolSizes(num_threads) ==
    IF IsSome(num_threads) /\ Unwrap(num_threads) > 0
    THEN {Unwrap(num_threads)}
    ELSE 1..MaxThreads

Built == IsSome(engine) /\ Unwrap(engine).ok
Core == Unwrap(engine).value

\* One run_cycle call of a caller.  `out` is the output of collect(), one
\* slot per item, None until written; `computed` keeps what compute_states
\* returned; `reordered` and `overlapped` are history: a slot was written
\* before a lower one, and another call was running when this one began.
IdleCall(frags, thr, cap) ==
    [pc                |-> "idle",
     fragments         |-> frags,
     hygiene_threshold |-> thr,
     max_iterations    |-> cap,
     out               |-> <<>>,
     computed          |-> None,
     locals            |-> CycleLocals(<<>>),
     result            |-> None,
     reordered         |-> FALSE,
     overlapped        |-> FALSE]

Running(c) == calls[c].pc \in {"states", "run"}

\* return Err(EngineError::ZeroThreads)
NewZeroThreads ==
    /\ engine = None
    /\ is_zero_threads(new_args[2])
    /\ engine' = Some(Err(ZeroThreads))
    /\ UNCHANGED <<target, new_args, callers, calls, tasks, workers>>

\* builder.build() fails: Err(EngineError::ThreadPoolBuild(..))
NewPoolBuildFails ==
    /\ engine = None
    /\ ~is_zero_threads(new_args[2])
    /\ target = "native"
    /\ \E err \in PoolBuildErrors : engine' = Some(Err(ThreadPoolBuild(err)))
    /\ UNCHANGED <<target, new_args, callers, calls, tasks, workers>>

\* Ok(Self { max_batch: max_batch.max(1), configured_threads: num_threads, pool })
NewOk ==
    /\ engine = None
    /\ ~is_zero_threads(new_args[2])
    /\ \E n \in (IF target = "native" THEN PoolSizes(new_args[2]) ELSE {1}) :
          engine' = Some(Ok(EngineCore(Max(unwrap_or(new_args[1], DefaultMaxBatch), 1),
                                       new_args[2], n)))
    /\ UNCHANGED <<target, new_args, callers, calls, tasks, workers>>

\* The records of the other calls when caller c enters run_cycle.
Entering(c) ==
    [d \in callers |->
        IF d /= c /\ Running(d) THEN [calls[d] EXCEPT !.overlapped = TRUE] ELSE calls[d]]

\* run_cycle on an empty batch
CallEmpty(c) ==
    /\ Built
    /\ calls[c].pc = "idle"
    /\ calls[c].fragments = <<>>
    /\ calls' = [Entering(c) EXCEPT ![c].pc = "done",
                                    ![c].result = Some(HarpoonCycleDataDefault),
                                    ![c].overlapped = \E d \in callers \ {c} : Running(d)]
    /\ UNCHANGED <<target, new_args, engine, callers, tasks, workers>>

\* run_cycle on wasm32: fragments.into_iter().map(FragmentState::new).collect()
CallSequential(c) ==
    /\ Built
    /\ target = "wasm32"
    /\ calls[c].pc = "idle"
    /\ calls[c].fragments /= <<>>
    /\ LET sts == compute_states(calls[c].fragments)
       IN  calls' = [Entering(c) EXCEPT ![c].pc = "run",
                                        ![c].computed = Some(sts),
                                        ![c].locals = CycleLocals(sts),
                                        ![c].overlapped = \E d \in callers \ {c} : Running(d)]
    /\ UNCHANGED <<target, new_args, engine, callers, tasks, workers>>

\* run_cycle on native: self.pool.install(..) hands the whole batch to the pool
CallInstall(c) ==
    /\ Built
    /\ target = "native"
    /\ calls[c].pc = "idle"
    /\ calls[c].fragments /= <<>>
    /\ calls' = [Entering(c) EXCEPT ![c].pc = "states",
                                    ![c].out = [i \in 1..Len(calls[c].fragments) |-> None],
                                    ![c].overlapped = \E d \in callers \ {c} : Running(d)]
    /\ tasks' = tasks \cup {[call |-> c, lo |-> 0, hi |-> Len(calls[c].fragments)]}
    /\ UNCHANGED <<target, new_args, engine, callers, workers>>

\* with_min_len(self.max_batch): a chunk may be split while both halves keep
\* at least min items
can_split(len, min) == len \div 2 >= min

\* A chunk is split in the middle; whether a splittable chunk is split
\* depends on the pool's load, so both are possible.
Split(t) ==
    /\ t \in tasks
    /\ can_split(t.hi - t.lo, Core.max_batch)
    /\ LET mid == t.lo + ((t.hi - t.lo) \div 2)
       IN  tasks' = (tasks \ {t}) \cup {[t EXCEPT !.hi = mid], [t EXCEPT !.lo = mid]}
    /\ UNCHANGED <<target, new_args, engine, callers, calls, workers>>

\* An idle pool thread takes a chunk.
Claim(t) ==
    /\ t \in tasks
    /\ Cardinality(workers) < Core.threads
    /\ workers' = workers \cup {[call |-> t.call, lo |-> t.lo, hi |-> t.hi, next |-> t.lo]}
    /\ tasks' = tasks \ {t}
    /\ UNCHANGED <<target, new_args, engine, callers, calls>>

\* The item a chunk yields at position i of the batch.
\* Fault: the chunk's items are taken from the start of the batch.
produce_NotOffset(frags, job, i) == frags[(i - job.lo) + 1]
produce(frags, job, i) == frags[i + 1]

\* collect() writes the state of position i into slot i.
\* Fault: the state goes into the first free slot.
write_slot_NextFree(out, i, st) ==
    [out EXCEPT ![CHOOSE k \in 1..Len(out) :
                     out[k] = None /\ \A j \in 1..(k - 1) : out[j] /= None] = Some(st)]
write_slot(out, i, st) == [out EXCEPT ![i + 1] = Some(st)]

\* The call whose output a chunk writes to.
\* Fault: the output of the first call that waits for a state at that position.
consumer_FirstWaiting(job) ==
    CHOOSE c \in callers : calls[c].pc = "states" /\ Len(calls[c].out) > job.next
consumer(job) == job.call

\* A pool thread maps FragmentState::new over the next item of its chunk.
Work(job) ==
    /\ job \in workers
    /\ LET c   == consumer(job)
           i   == job.next
           st  == FragmentStateNew(produce(calls[job.call].fragments, job, i))
       IN  /\ calls' = [calls EXCEPT
                          ![c].out = write_slot(calls[c].out, i, st),
                          ![c].reordered =
                              calls[c].reordered \/ \E k \in 1..i : calls[c].out[k] = None]
           /\ workers' = (workers \ {job}) \cup
                            (IF i + 1 = job.hi THEN {} ELSE {[job EXCEPT !.next = i + 1]})
    /\ UNCHANGED <<target, new_args, engine, callers, tasks>>

\* Every chunk of the call is done: install returns the collected Vec and
\* run_cycle sets up its locals.
Collect(c) ==
    /\ calls[c].pc = "states"
    /\ \A t \in tasks : t.call /= c
    /\ \A job \in workers : job.call /= c
    /\ LET sts == [i \in 1..Len(calls[c].out) |-> Unwrap(calls[c].out[i])]
       IN  calls' = [calls EXCEPT ![c].pc = "run",
                                  ![c].computed = Some(sts),
                                  ![c].locals = CycleLocals(sts)]
    /\ UNCHANGED <<target, new_args, engine, callers, tasks, workers>>

\* One pass of the loop of caller c's call.
LoopStep(c) ==
    /\ calls[c].pc = "run"
    /\ calls[c].locals.pc = "loop"
    /\ ~beyond_explored(calls[c].locals, calls[c].max_iterations)
    /\ calls' = [calls EXCEPT
                   ![c].locals = loop_step(calls[c].locals, calls[c].hygiene_threshold,
                                           calls[c].max_iterations)]
    /\ UNCHANGED <<target, new_args, engine, callers, tasks, workers>>

\* Caller c's call returns its HarpoonCycleData.
Return(c) ==
    /\ calls[c].pc = "run"
    /\ calls[c].locals.pc = "assemble"
    /\ calls' = [calls EXCEPT ![c].pc = "done",
                              ![c].result = Some(assemble(calls[c].locals))]
    /\ UNCHANGED <<target, new_args, engine, callers, tasks, workers>>

\* The run_cycle variables of Spec are not used by the engine specifications.
NoCycle ==
    /\ fragments = <<>>
    /\ hygiene_threshold = 0
    /\ max_iterations = None
    /\ pc = "call"
    /\ states = <<>>
    /\ queue = <<>>
    /\ anchors = <<>>
    /\ events = <<>>
    /\ absorbed_indices = <<>>
    /\ iterations = 0
    /\ last_anchor = None
    /\ result = None
    /\ evaluated = <<>>

\* The batches of the given lengths whose idx is the input position.
PositionBatches(lengths) ==
    {[i \in 1..Len(s) |-> FragmentInput(s[i][1], i - 1, "1-2", s[i][2])] :
        s \in UNION {[1..k -> Sources] : k \in lengths}}

\* A cap the loop hits at once and one that lets every fragment be evaluated.
EngineCaps == {Some(1), Some(MaxLen)}

\* One caller; every target and every constructor argument.
EngineInit ==
    /\ NoCycle
    /\ NoApi
    /\ NoGil
    /\ NoFusion
    /\ NoHosted
    /\ target \in {"native", "wasm32"}
    /\ new_args \in ({None} \cup {Some(b) : b \in 0..MaxBatch})
                      \X ({None} \cup {Some(n) : n \in 0..MaxThreads})
    /\ engine = None
    /\ callers = {"t1"}
    /\ calls \in [callers -> {IdleCall(b, 5000, cap) :
                                 b \in PositionBatches(0..MaxLen), cap \in EngineCaps}]
    /\ tasks = {}
    /\ workers = {}

EngineNext ==
    \/ NewZeroThreads /\ UNCHANGED outside_engine
    \/ NewPoolBuildFails /\ UNCHANGED outside_engine
    \/ NewOk /\ UNCHANGED outside_engine
    \/ \E c \in callers : CallEmpty(c) /\ UNCHANGED outside_engine
    \/ \E c \in callers : CallSequential(c) /\ UNCHANGED outside_engine
    \/ \E c \in callers : CallInstall(c) /\ UNCHANGED outside_engine
    \/ \E t \in tasks : Split(t) /\ UNCHANGED outside_engine
    \/ \E t \in tasks : Claim(t) /\ UNCHANGED outside_engine
    \/ \E job \in workers : Work(job) /\ UNCHANGED outside_engine
    \/ \E c \in callers : Collect(c) /\ UNCHANGED outside_engine
    \/ \E c \in callers : LoopStep(c) /\ UNCHANGED outside_engine
    \/ \E c \in callers : Return(c) /\ UNCHANGED outside_engine

all_vars == <<vars, engine_vars, api_vars, gil_vars, fusion_vars, hosted_vars>>

EngineSpec == EngineInit /\ [][EngineNext]_all_vars

\* The calls of the two callers: an empty batch, one fragment or two, and a
\* cap that lets both fragments be evaluated.
SharedCalls == {IdleCall(b, 5000, Some(2)) : b \in PositionBatches({0, 1, 2})}

\* Two callers on one engine that is already built (native, max_batch 1, so
\* that every batch of two or more is split, and 1..MaxThreads pool threads).
SharedEngines == {Ok(EngineCore(1, Some(n), n)) : n \in 1..MaxThreads}

SharedInit ==
    /\ NoCycle
    /\ NoApi
    /\ NoGil
    /\ NoFusion
    /\ NoHosted
    /\ target = "native"
    /\ \E e \in SharedEngines :
          /\ engine = Some(e)
          /\ new_args = <<Some(e.value.max_batch), e.value.configured_threads>>
    /\ callers = {"t1", "t2"}
    /\ calls \in [callers -> SharedCalls]
    /\ tasks = {}
    /\ workers = {}

SharedNext ==
    \/ \E c \in callers : CallEmpty(c) /\ UNCHANGED outside_engine
    \/ \E c \in callers : CallInstall(c) /\ UNCHANGED outside_engine
    \/ \E t \in tasks : Split(t) /\ UNCHANGED outside_engine
    \/ \E t \in tasks : Claim(t) /\ UNCHANGED outside_engine
    \/ \E job \in workers : Work(job) /\ UNCHANGED outside_engine
    \/ \E c \in callers : Collect(c) /\ UNCHANGED outside_engine
    \/ \E c \in callers : LoopStep(c) /\ UNCHANGED outside_engine
    \/ \E c \in callers : Return(c) /\ UNCHANGED outside_engine

SharedSpec == SharedInit /\ [][SharedNext]_all_vars

\* C17: compute_states returns one state per input fragment in input order:
\* every slot of the output that is written holds FragmentState::new of the
\* fragment at the same position, and the Vec compute_states returns is the
\* batch mapped position by position, for every target, pool size, max_batch,
\* split of the batch into chunks and interleaving of the pool threads.
C17_StatesInInputOrder ==
    \A c \in callers :
        /\ calls[c].pc = "states" =>
              /\ Len(calls[c].out) = Len(calls[c].fragments)
              /\ \A i \in 1..Len(calls[c].out) :
                    IsSome(calls[c].out[i]) =>
                        calls[c].out[i] = Some(FragmentStateNew(calls[c].fragments[i]))
        /\ IsSome(calls[c].computed) =>
              /\ Len(Unwrap(calls[c].computed)) = Len(calls[c].fragments)
              /\ \A i \in 1..Len(calls[c].fragments) :
                    /\ Unwrap(calls[c].computed)[i]
                         = FragmentStateNew(calls[c].fragments[i])
                    /\ Unwrap(calls[c].computed)[i].input = calls[c].fragments[i]

\* Three fragments, not all alike, computed by two pool threads in chunks
\* of one, a later slot written before an earlier one.
C17_Witness ==
    /\ Built
    /\ target = "native"
    /\ Core.threads = 2
    /\ Core.max_batch = 1
    /\ \E c \in callers :
          /\ IsSome(calls[c].computed)
          /\ calls[c].reordered
          /\ Len(calls[c].fragments) = 3
          /\ calls[c].fragments[1].body /= calls[c].fragments[3].body

\* C18: the result a call returns is run_cycle of its batch, threshold and
\* cap, whatever the target (pool or sequential), the number of pool
\* threads, max_batch, and the order in which the pool wrote the states.
C18_ResultSameForEveryEngine ==
    \A c \in callers :
        calls[c].pc = "done" =>
            calls[c].result = run_cycle(calls[c].fragments, calls[c].hygiene_threshold,
                                        calls[c].max_iterations)

\* A result with an absorbed and a pending fragment, computed on a pool of
\* two threads that wrote the states out of order.
C18_Witness ==
    /\ Built
    /\ target = "native"
    /\ Core.threads = 2
    /\ \E c \in callers :
          /\ calls[c].pc = "done"
          /\ calls[c].reordered
          /\ Len(Unwrap(calls[c].result).absorbed) >= 1
          /\ Len(Unwrap(calls[c].result).pending) >= 1
          /\ Unwrap(calls[c].result).absorbed[1].idx > 0

\* A step that changes the locals of one call leaves every other call as it is.
C19_LocalsArePrivate ==
    \A c \in callers :
        calls'[c].locals /= calls[c].locals =>
            \A d \in callers \ {c} : calls'[d] = calls[d]

\* Every state written for a call and every state its loop runs on is a
\* state of its own batch, and every returned result is the one the call
\* returns when run alone.
C19_ResultAsAlone ==
    \A c \in callers :
        /\ \A i \in 1..Len(calls[c].out) :
              IsSome(calls[c].out[i]) =>
                  Unwrap(calls[c].out[i]).input = calls[c].fragments[i]
        /\ IsSome(calls[c].computed) =>
              Unwrap(calls[c].computed) = compute_states(calls[c].fragments)
        /\ calls[c].pc = "done" =>
              calls[c].result = run_cycle(calls[c].fragments, calls[c].hygiene_threshold,
                                          calls[c].max_iterations)

\* C19: run_cycle calls running at the same time on one engine each return
\* the result they return alone, and no step of a call's loop changes
\* another call.
C19_ConcurrentCallsIsolated == [][C19_LocalsArePrivate]_all_vars /\ []C19_ResultAsAlone

\* Two overlapping calls on different batches, both returned, different results.
C19_Witness ==
    /\ calls["t1"].pc = "done"
    /\ calls["t2"].pc = "done"
    /\ calls["t1"].overlapped
    /\ calls["t2"].overlapped
    /\ calls["t1"].reordered
    /\ Len(calls["t1"].fragments) = 2
    /\ Len(calls["t2"].fragments) = 2
    /\ calls["t1"].fragments /= calls["t2"].fragments
    /\ Unwrap(calls["t1"].result).anchors /= Unwrap(calls["t2"].result).anchors

\* C20: construction with num_threads = Some(0) ends in the ZeroThreads
\* error message, for every max_batch and target, and no call is served;
\* with num_threads None or Some(n >= 1) the outcome is an engine or an
\* error other than ZeroThreads.
C20_ZeroThreadsIsAnError ==
    IsSome(engine) =>
        /\ new_args[2] = Some(0) =>
              /\ ~Unwrap(engine).ok
              /\ Unwrap(engine).value = ZeroThreads
              /\ \A c \in callers : calls[c].pc = "idle"
              /\ workers = {}
        /\ new_args[2] /= Some(0) =>
              \/ /\ Unwrap(engine).ok
                 /\ Core.configured_threads = new_args[2]
                 /\ Core.threads >= 1
                 /\ Core.max_batch >= 1
              \/ /\ ~Unwrap(engine).ok
                 /\ Unwrap(engine).value /= ZeroThreads

C20_Witness ==
    /\ IsSome(engine)
    /\ new_args = <<None, Some(0)>>
    /\ ~Unwrap(engine).ok

(***************************************************************************)
(* The exposed operations.  ApiSpec applies one operation to one request:  *)
(* Init draws the request, the operation's action computes the response.   *)
(* A cycle request is drawn as a case (batch, threshold, cap) and handed   *)
(* to a call surface in the form its host passes it: Rust values, Python   *)
(* objects, or JavaScript values.                                          *)
(***************************************************************************)
\* JavaScript values (serde_wasm_bindgen's data model)
JsUndefined == [js |-> "undefined"]
JsNumber(n) == [js |-> "number", v |-> n]
JsString(str) == [js |-> "string", v |-> str]
JsArray(seq) == [js |-> "array", v |-> seq]
JsObject(fields) == [js |-> "object", v |-> fields]

\* Python values: a dict is a record of its items, None is PyNone
PyNone == [py |-> "None"]
PyInt(n) == [py |-> "int", v |-> n]
PyFloat(x) == [py |-> "float", v |-> x]
PyStr(str) == [py |-> "str", v |-> str]

\* Option<T>::map
map(opt, f(_)) == IF IsSome(opt) THEN Some(f(Unwrap(opt))) ELSE None

\* `v as usize` on a u32
as_usize(v) == v

\* impl From<FragmentInputSerde> for FragmentInput
FragmentInputFrom(value) ==
    FragmentInput(value.path, value.idx, value.lines, value.body)

\* serde_wasm_bindgen::from_value::<Vec<FragmentInputSerde>>
from_value(js) ==
    [i \in 1..Len(js.v) |->
        [path  |-> js.v[i].v.path.v,
         idx   |-> js.v[i].v.idx.v,
         lines |-> js.v[i].v.lines.v,
         body  |-> js.v[i].v.body.v]]

\* impl FromPyObject for FragmentInput: obj.get_item(key)?.extract()?
extract_bound(obj) ==
    FragmentInput(obj["path"].v, obj["idx"].v, obj["lines"].v, obj["body"].v)

\* Serialize for Option<T>, FragmentReport, CycleEvent and HarpoonCycleData as
\* serde_wasm_bindgen::to_value writes them: a struct is an object, a Vec an
\* array, None is undefined, every number a JS number.
js_option(opt, f(_)) == IF IsSome(opt) THEN f(Unwrap(opt)) ELSE JsUndefined

js_report(r) ==
    JsObject([path          |-> JsString(r.path),
              idx           |-> JsNumber(r.idx),
              lines         |-> JsString(r.lines),
              hash          |-> JsString(r.hash),
              hygiene_score |-> js_option(r.hygiene_score, JsNumber),
              language      |-> JsString(r.language),
              fingerprint   |-> JsString(r.fingerprint),
              body_len      |-> JsNumber(r.body_len)])

js_event(e) ==
    JsObject([event           |-> JsString(e.event),
              path            |-> JsString(e.path),
              idx             |-> JsNumber(e.idx),
              lines           |-> JsString(e.lines),
              hash            |-> JsString(e.hash),
              hygiene_score   |-> JsNumber(e.hygiene_score),
              anchor_prev     |-> js_option(e.anchor_prev, JsString),
              anchor_next     |-> js_option(e.anchor_next, JsString),
              language        |-> JsString(e.language),
              fingerprint     |-> JsString(e.fingerprint),
              iteration_index |-> JsNumber(e.iteration_index)])

js_array(seq, f(_)) == JsArray([i \in 1..Len(seq) |-> f(seq[i])])

to_value(data) ==
    JsObject([absorbed   |-> js_array(data.absorbed, js_report),
              pending    |-> js_array(data.pending, js_report),
              events     |-> js_array(data.events, js_event),
              iterations |-> JsNumber(data.iterations),
              anchors    |-> js_array(data.anchors, JsString)])

\* HarpoonCycle::from_data
\* Fault: pending is filled from absorbed.
from_data_PendingFromAbsorbed(data) ==
    [absorbed   |-> data.absorbed,
     pending    |-> data.absorbed,
     events     |-> data.events,
     iterations |-> data.iterations,
     anchors    |-> data.anchors]
from_data(data) ==
    [absorbed   |-> data.absorbed,
     pending    |-> data.pending,
     events     |-> data.events,
     iterations |-> data.iterations,
     anchors    |-> data.anchors]

\* The call returns: run_cycle ends within the evaluations the model explores.
Returns(frags, thr, cap) == IsSome(run_cycle(frags, thr, cap))

\* HarpoonEngine::run_native_cycle
run_native_cycle(frags, thr, cap) ==
    LET data == Unwrap(run_cycle(frags, thr, cap))
    IN  Ok(from_data(data))

\* HarpoonEngine::envelope_cycle (python); the arguments are extracted from
\* the host's list of dicts, float and int-or-None
py_envelope_cycle(py_fragments, py_threshold, py_cap) ==
    LET frags == [i \in 1..Len(py_fragments) |-> extract_bound(py_fragments[i])]
        thr   == py_threshold.v
        cap   == IF py_cap = PyNone THEN None ELSE Some(py_cap.v)
        data  == Unwrap(run_cycle(frags, thr, cap))
    IN  Ok(from_data(data))

\* WasmHarpoonEngine::envelope_cycle; max_iterations arrives as Option<u32>
wasm_envelope_cycle(js_fragments, thr, cap) ==
    LET payload == from_value(js_fragments)
        frags   == [i \in 1..Len(payload) |-> FragmentInputFrom(payload[i])]
        data    == Unwrap(run_cycle(frags, thr, map(cap, as_usize)))
    IN  Ok(to_value(data))

\* What the hosts pass for a batch.
py_list(batch) ==
    [i \in 1..Len(batch) |->
        [path  |-> PyStr(batch[i].path),
         idx   |-> PyInt(batch[i].idx),
         lines |-> PyStr(batch[i].lines),
         body  |-> PyStr(batch[i].body),
         note  |-> PyStr("ignored")]]

js_list(batch) ==
    JsArray([i \in 1..Len(batch) |->
        JsObject([path  |-> JsString(batch[i].path),
                  idx   |-> JsNumber(batch[i].idx),
                  lines |-> JsString(batch[i].lines),
                  body  |-> JsString(batch[i].body)])])

\* The cycle cases: batches whose idx is twice the position, so that idx is
\* not the position, with every threshold and cap of the model.
CaseBatches ==
    {[i \in 1..Len(b) |-> [b[i] EXCEPT !.idx = 2 * b[i].idx + 1]] :
        b \in PositionBatches(0..MaxLen)}

\* Batches of two fragments that share or do not share a body while path, idx
\* and lines differ, run to the end.
HashPaths == {"A.PY", "notes"}
HashBodies == {BodyDef, BodyEmpty}
HashBatches ==
    {<<FragmentInput(p1, 7, "1-2", b1), FragmentInput(p2, 3, "10-20", b2)>> :
        p1 \in HashPaths, p2 \in HashPaths, b1 \in HashBodies, b2 \in HashBodies}
HashCases == {<<b, 5000, Some(2)>> : b \in HashBatches}

Cases ==
    {<<b, thr, cap>> : b \in CaseBatches, thr \in Thresholds, cap \in Caps}
    \cup HashCases

CycleRequests ==
    {[op |-> "run_native_cycle", case |-> c,
      passed |-> <<c[1], c[2], c[3]>>] : c \in Cases}
    \cup
    {[op |-> "py_envelope_cycle", case |-> c,
      passed |-> <<py_list(c[1]), PyFloat(c[2]),
                 IF IsSome(c[3]) THEN PyInt(Unwrap(c[3])) ELSE PyNone>>] : c \in Cases}
    \cup
    {[op |-> "wasm_envelope_cycle", case |-> c,
      passed |-> <<js_list(c[1]), c[2], c[3]>>] : c \in Cases}

RunNativeCycle ==
    /\ request.op = "run_native_cycle"
    /\ response = None
    /\ Returns(request.case[1], request.case[2], request.case[3])
    /\ response' = Some(run_native_cycle(request.passed[1], request.passed[2], request.passed[3]))
    /\ UNCHANGED request

PyEnvelopeCycle ==
    /\ request.op = "py_envelope_cycle"
    /\ response = None
    /\ Returns(request.case[1], request.case[2], request.case[3])
    /\ response' = Some(py_envelope_cycle(request.passed[1], request.passed[2],
                                          request.passed[3]))
    /\ UNCHANGED request

WasmEnvelopeCycle ==
    /\ request.op = "wasm_envelope_cycle"
    /\ response = None
    /\ Returns(request.case[1], request.case[2], request.case[3])
    /\ response' = Some(wasm_envelope_cycle(request.passed[1], request.passed[2],
                                            request.passed[3]))
    /\ UNCHANGED request

\* HarpoonEngine::compute_fingerprint(&self, body)
engine_compute_fingerprint(body) == compute_fingerprint(body)

\* HarpoonEngine::fingerprint(&self, body) (python)
py_fingerprint(body) == compute_fingerprint(body)

\* The standalone fingerprint operations, asked for the body of a fragment
\* of a case.
FingerprintRequests ==
    {[op |-> o, case |-> c, passed |-> <<c[1][k].body>>] :
        o \in {"compute_fingerprint", "py_fingerprint"}, c \in HashCases, k \in 1..2}

ComputeFingerprint ==
    /\ request.op = "compute_fingerprint"
    /\ response = None
    /\ response' = Some(engine_compute_fingerprint(request.passed[1]))
    /\ UNCHANGED request

PyFingerprint ==
    /\ request.op = "py_fingerprint"
    /\ response = None
    /\ response' = Some(py_fingerprint(request.passed[1]))
    /\ UNCHANGED request

ApiRequests == CycleRequests \cup FingerprintRequests

ApiInit ==
    /\ NoCycle
    /\ NoEngine
    /\ NoGil
    /\ NoFusion
    /\ NoHosted
    /\ request \in ApiRequests
    /\ response = None

outside_api == <<vars, engine_vars, gil_vars, fusion_vars, hosted_vars>>

ApiNext ==
    \/ RunNativeCycle /\ UNCHANGED outside_api
    \/ PyEnvelopeCycle /\ UNCHANGED outside_api
    \/ WasmEnvelopeCycle /\ UNCHANGED outside_api
    \/ ComputeFingerprint /\ UNCHANGED outside_api
    \/ PyFingerprint /\ UNCHANGED outside_api

ApiSpec == ApiInit /\ [][ApiNext]_all_vars

\* What a host reads from a returned cycle: per report and per event the
\* identity fields, the anchors and the iteration count.  ViewCycle reads a
\* HarpoonCycle or HarpoonCycleData, ViewJs the JavaScript object.
ViewCycle(c) ==
    [absorbed   |-> [i \in 1..Len(c.absorbed) |->
                        <<c.absorbed[i].idx, c.absorbed[i].path, c.absorbed[i].lines,
                          c.absorbed[i].hash, c.absorbed[i].fingerprint>>],
     pending    |-> [i \in 1..Len(c.pending) |->
                        <<c.pending[i].idx, c.pending[i].path, c.pending[i].lines,
                          c.pending[i].hash, c.pending[i].fingerprint>>],
     events     |-> [i \in 1..Len(c.events) |->
                        <<c.events[i].event, c.events[i].idx, c.events[i].path,
                          c.events[i].hash, c.events[i].fingerprint,
                          c.events[i].hygiene_score, c.events[i].iteration_index,
                          IsSome(c.events[i].anchor_prev), IsSome(c.events[i].anchor_next),
                          c.events[i].anchor_prev \o c.events[i].anchor_next>>],
     iterations |-> c.iterations,
     anchors    |-> c.anchors]

JsPresent(x) == x.js /= "undefined"
JsList(x) == IF JsPresent(x) THEN <<x.v>> ELSE <<>>

ViewJs(o) ==
    [absorbed   |-> [i \in 1..Len(o.v.absorbed.v) |->
                        LET r == o.v.absorbed.v[i].v
                        IN  <<r.idx.v, r.path.v, r.lines.v, r.hash.v, r.fingerprint.v>>],
     pending    |-> [i \in 1..Len(o.v.pending.v) |->
                        LET r == o.v.pending.v[i].v
                        IN  <<r.idx.v, r.path.v, r.lines.v, r.hash.v, r.fingerprint.v>>],
     events     |-> [i \in 1..Len(o.v.events.v) |->
                        LET e == o.v.events.v[i].v
                        IN  <<e.event.v, e.idx.v, e.path.v, e.hash.v, e.fingerprint.v,
                              e.hygiene_score.v, e.iteration_index.v,
                              JsPresent(e.anchor_prev), JsPresent(e.anchor_next),
                              JsList(e.anchor_prev) \o JsList(e.anchor_next)>>],
     iterations |-> o.v.iterations.v,
     anchors    |-> [i \in 1..Len(o.v.anchors.v) |-> o.v.anchors.v[i].v]]

IsCycleRequest ==
    request.op \in {"run_native_cycle", "py_envelope_cycle", "wasm_envelope_cycle"}

\* C21: run_native_cycle, the Python envelope_cycle and the WebAssembly
\* envelope_cycle, given the same batch, threshold and cap in their host's
\* form, return Ok with the hashes, fingerprints, anchors, iteration count
\* and event sequence of EngineCore::run_cycle on that batch.
C21_SurfacesRefineCore ==
    (IsCycleRequest /\ IsSome(response)) =>
        LET core == Unwrap(run_cycle(request.case[1], request.case[2], request.case[3]))
            out  == Unwrap(response)
        IN  /\ out.ok
            /\ IF request.op = "wasm_envelope_cycle"
               THEN ViewJs(out.value) = ViewCycle(core)
               ELSE ViewCycle(out.value) = ViewCycle(core)

\* The WebAssembly surface returned a cycle with an absorbed and a pending
\* fragment and an event whose anchor_prev is present.
C21_Witness ==
    /\ request.op = "wasm_envelope_cycle"
    /\ IsSome(response)
    /\ Len(Unwrap(response).value.v.absorbed.v) >= 1
    /\ Len(Unwrap(response).value.v.pending.v) >= 1
    /\ \E i \in 1..Len(Unwrap(response).value.v.events.v) :
          JsPresent(Unwrap(response).value.v.events.v[i].v.anchor_prev)

\* The reports of a returned cycle as <<idx, path, lines, hash, fingerprint>>,
\* absorbed then pending, read from a HarpoonCycle or a JavaScript object.
ReportsOf(op, value) ==
    IF op = "wasm_envelope_cycle"
    THEN ViewJs(value).absorbed \o ViewJs(value).pending
    ELSE ViewCycle(value).absorbed \o ViewCycle(value).pending

\* The body of the fragment of the batch that has the given idx.
BodyOfIdx(batch, idx) ==
    LET k == CHOOSE k \in 1..Len(batch) : batch[k].idx = idx
    IN  batch[k].body

IsFingerprintRequest == request.op \in {"compute_fingerprint", "py_fingerprint"}

\* C23: hash and fingerprint depend on the body only.  In a returned cycle
\* two reports of fragments with the same body carry the same hash and the
\* same fingerprint, whatever their path, idx, lines and position; a
\* standalone fingerprint operation returns the fingerprint that a cycle
\* reports for every fragment with that body.
C23_HashAndFingerprintOfBodyOnly ==
    /\ (IsCycleRequest /\ IsSome(response)) =>
          LET reps == ReportsOf(request.op, Unwrap(response).value)
          IN  \A i, j \in 1..Len(reps) :
                 LET same == BodyOfIdx(request.case[1], reps[i][1])
                               = BodyOfIdx(request.case[1], reps[j][1])
                 IN  same => (reps[i][4] = reps[j][4] /\ reps[i][5] = reps[j][5])
    /\ (IsFingerprintRequest /\ IsSome(response)) =>
          LET core == Unwrap(run_cycle(request.case[1], request.case[2], request.case[3]))
              reps == ViewCycle(core).absorbed \o ViewCycle(core).pending
          IN  /\ \E i \in 1..Len(reps) :
                    BodyOfIdx(request.case[1], reps[i][1]) = request.passed[1]
              /\ \A i \in 1..Len(reps) :
                    BodyOfIdx(request.case[1], reps[i][1]) = request.passed[1]
                        => reps[i][5] = Unwrap(response)

\* A returned cycle with two reports that differ in path, idx and lines and
\* carry the same hash.
C23_Witness ==
    /\ IsCycleRequest
    /\ IsSome(response)
    /\ LET reps == ReportsOf(request.op, Unwrap(response).value)
       IN  \E i, j \in 1..Len(reps) :
              /\ reps[i][1] /= reps[j][1]
              /\ reps[i][2] /= reps[j][2]
              /\ reps[i][3] /= reps[j][3]
              /\ reps[i][4] = reps[j][4]
              /\ reps[i][5] = reps[j][5]

\* A standalone fingerprint operation returned.
FingerprintReturned == IsFingerprintRequest /\ IsSome(response)

\* The events of the fragment at position p of the batch.
EventsOfPosition(p) == {e \in Indices(events) : evaluated[e] = p}

\* A report's score is absent when its fragment at position p has no event,
\* and otherwise present and equal to the score of each of its events.
ScoreMatchesEvents(report, p) ==
    /\ IsSome(report.hygiene_score) <=> EventsOfPosition(p) /= {}
    /\ \A e \in EventsOfPosition(p) :
          report.hygiene_score = Some(events[e].hygiene_score)

\* C24: in a returned result a report's hygiene_score is absent if and only
\* if its fragment was never evaluated: every absorbed report has an event
\* and a present score, a pending report has a present score exactly when
\* its fragment has an event, and a present score is the score of each
\* event of the fragment.
C24_ScoreAbsentIffNeverEvaluated ==
    Returned =>
        /\ \A k \in Indices(Res.absorbed) :
              /\ IsSome(Res.absorbed[k].hygiene_score)
              /\ ScoreMatchesEvents(Res.absorbed[k], absorbed_indices[k])
        /\ \A k \in Indices(Res.pending) :
              ScoreMatchesEvents(Res.pending[k], queue[k])

\* A returned result with an absorbed report, a pending report that was
\* evaluated and requeued, and a pending report the cap left unevaluated.
C24_Witness ==
    /\ Returned
    /\ Res.absorbed /= <<>>
    /\ \E k \in Indices(Res.pending) :
          IsSome(Res.pending[k].hygiene_score) /\ EventsOfPosition(queue[k]) /= {}
    /\ \E k \in Indices(Res.pending) :
          Res.pending[k].hygiene_score = None /\ EventsOfPosition(queue[k]) = {}

(***************************************************************************)
(* The Python envelope_cycle and the interpreter lock.  GilSpec runs one    *)
(* call of envelope_cycle by the Python thread "py" on a built native       *)
(* engine while another Python thread of the host takes and drops the lock  *)
(* whenever it is free.  The Python<'_> token of the method says the caller *)
(* holds the lock on entry; py.allow_threads drops it, runs the closure     *)
(* (the whole of run_cycle) and takes it again before it returns.           *)
(***************************************************************************)
PyCaller == "py"
HostThreads == {"host"}

\* The calls of envelope_cycle: an empty batch, and batches the pool splits.
GilCalls == {IdleCall(b, 5000, Some(2)) : b \in PositionBatches({0, 2, 3})}

GilInit ==
    /\ NoCycle
    /\ NoApi
    /\ NoFusion
    /\ NoHosted
    /\ target = "native"
    /\ \E e \in SharedEngines :
          /\ engine = Some(e)
          /\ new_args = <<Some(e.value.max_batch), e.value.configured_threads>>
    /\ callers = {PyCaller}
    /\ calls \in [callers -> GilCalls]
    /\ tasks = {}
    /\ workers = {}
    /\ gil = Some(PyCaller)
    /\ py_pc = "entered"
    /\ py_result = None

\* py.allow_threads(..): the lock is dropped before the closure runs.
\* Fault: the closure runs with the lock still held.
AllowThreads_KeepsGil ==
    /\ py_pc = "entered"
    /\ gil = Some(PyCaller)
    /\ gil' = gil
    /\ py_pc' = "released"
    /\ UNCHANGED py_result
AllowThreads ==
    /\ py_pc = "entered"
    /\ gil = Some(PyCaller)
    /\ gil' = None
    /\ py_pc' = "released"
    /\ UNCHANGED py_result

\* The closure: inner.run_cycle(fragments, hygiene_threshold, max_iterations)
InClosure == py_pc = "released"

\* The closure has returned: allow_threads takes the lock again, waiting
\* until no other thread holds it.
Reacquire ==
    /\ py_pc = "released"
    /\ calls[PyCaller].pc = "done"
    /\ gil = None
    /\ gil' = Some(PyCaller)
    /\ py_pc' = "reacquired"
    /\ UNCHANGED py_result

\* Ok(HarpoonCycle::from_data(data))
PyReturn ==
    /\ py_pc = "reacquired"
    /\ py_result' = Some(Ok(from_data(Unwrap(calls[PyCaller].result))))
    /\ py_pc' = "returned"
    /\ UNCHANGED gil

\* Another Python thread of the host takes the lock when it is free ...
HostAcquire(h) ==
    /\ gil = None
    /\ gil' = Some(h)
    /\ UNCHANGED <<py_pc, py_result>>

\* ... and drops it.
HostRelease(h) ==
    /\ gil = Some(h)
    /\ gil' = None
    /\ UNCHANGED <<py_pc, py_result>>

outside_gil == <<vars, engine_vars, api_vars, fusion_vars, hosted_vars>>
outside_closure == <<vars, api_vars, gil_vars, fusion_vars, hosted_vars>>

GilNext ==
    \/ AllowThreads /\ UNCHANGED outside_gil
    \/ InClosure /\ CallEmpty(PyCaller) /\ UNCHANGED outside_closure
    \/ InClosure /\ CallInstall(PyCaller) /\ UNCHANGED outside_closure
    \/ \E t \in tasks : Split(t) /\ UNCHANGED outside_closure
    \/ \E t \in tasks : Claim(t) /\ UNCHANGED outside_closure
    \/ \E job \in workers : Work(job) /\ UNCHANGED outside_closure
    \/ Collect(PyCaller) /\ UNCHANGED outside_closure
    \/ LoopStep(PyCaller) /\ UNCHANGED outside_closure
    \/ Return(PyCaller) /\ UNCHANGED outside_closure
    \/ Reacquire /\ UNCHANGED outside_gil
    \/ PyReturn /\ UNCHANGED outside_gil
    \/ \E h \in HostThreads : HostAcquire(h) /\ UNCHANGED outside_gil
    \/ \E h \in HostThreads : HostRelease(h) /\ UNCHANGED outside_gil

GilSpec == GilInit /\ [][GilNext]_all_vars

\* The parallel state-construction phase of the call is running.
ParallelPhase == calls[PyCaller].pc = "states"

\* The lock is free, or held by a thread that drops it: a host thread can
\* take it (the guard of HostAcquire, or that of HostRelease then HostAcquire).
HostCanAcquire == gil = None \/ \E h \in HostThreads : gil = Some(h)

\* C22: while the parallel state-construction phase of a Python
\* envelope_cycle runs the caller does not hold the interpreter lock and
\* another host thread can take it; the caller holds the lock again when the
\* result object is built and when it is returned to the host.
C22_GilReleasedThenReacquired ==
    /\ [](ParallelPhase => (gil /= Some(PyCaller) /\ HostCanAcquire))
    /\ [](py_pc \in {"reacquired", "returned"} => gil = Some(PyCaller))
    /\ [][py_result' /= py_result => (gil = Some(PyCaller) /\ gil' = Some(PyCaller))]_all_vars

\* A host thread holds the lock while pool threads are computing the states
\* of the call, a later slot already written before an earlier one.
C22_Witness ==
    /\ ParallelPhase
    /\ py_pc = "released"
    /\ \E h \in HostThreads : gil = Some(h)
    /\ workers /= {}
    /\ calls[PyCaller].reordered

\* The call returned its result to the host with the lock held by the caller.
GilReturned ==
    /\ py_pc = "returned"
    /\ IsSome(py_result)
    /\ Unwrap(py_result).ok
    /\ gil = Some(PyCaller)

(***************************************************************************)
(* FragmentSpec: run_cycle on one fragment, over paths with every          *)
(* recognised extension (and none) and bodies with keywords of each        *)
(* language (and none, and the empty body).                                *)
(***************************************************************************)
LangPaths ==
    {"a.py", "LIB.RS", "m.ts", "x.tsx", "app.js", "c.json", "c.yaml", "c.YML",
     "notes", "py"}

LangBodies ==
    {"", "import os\n", "  fn f() {}\n", "const x = 1;\n", "x = 1\n",
     "use a;\nimport b\n", "# def \n", "\n\tlet y;\n"}

FragmentThresholds == {3500, 5000}
FragmentCaps == {Some(1), Some(2)}

FragmentInit ==
    /\ NoEngine
    /\ NoApi
    /\ NoGil
    /\ NoFusion
    /\ NoHosted
    /\ \E p \in LangPaths, b \in LangBodies :
          fragments = <<FragmentInput(p, 0, "1-1", b)>>
    /\ hygiene_threshold \in FragmentThresholds
    /\ max_iterations \in FragmentCaps
    /\ pc = "call"
    /\ states = <<>>
    /\ queue = <<>>
    /\ anchors = <<>>
    /\ events = <<>>
    /\ absorbed_indices = <<>>
    /\ iterations = 0
    /\ last_anchor = None
    /\ result = None
    /\ evaluated = <<>>

FragmentNext ==
    \/ Start /\ UNCHANGED outside_cycle
    \/ LoopExit /\ UNCHANGED outside_cycle
    \/ CapBreak /\ UNCHANGED outside_cycle
    \/ Absorb /\ UNCHANGED outside_cycle
    \/ Requeue /\ UNCHANGED outside_cycle
    \/ Assemble /\ UNCHANGED outside_cycle

FragmentSpec == FragmentInit /\ [][FragmentNext]_vars

\* What is expected of the inputs, written out by hand: the language of the
\* path's extension and the languages whose keyword pattern the body matches.
ExpectedExtension(path) ==
    CASE path = "a.py" -> "python"
      [] path = "LIB.RS" -> "rust"
      [] path \in {"m.ts", "x.tsx", "app.js"} -> "typescript"
      [] path \in {"c.json", "c.yaml", "c.YML"} -> "config"
      [] OTHER -> "none"

ExpectedKeywords(body) ==
    CASE body = "import os\n" -> {"python", "typescript"}
      [] body = "  fn f() {}\n" -> {"rust"}
      [] body = "const x = 1;\n" -> {"typescript"}
      [] body = "use a;\nimport b\n" -> {"rust", "python", "typescript"}
      [] body = "\n\tlet y;\n" -> {"typescript"}
      [] OTHER -> {}

Matches(lang, path, body) ==
    ExpectedExtension(path) = lang \/ lang \in ExpectedKeywords(body)

ExpectedLanguage(path, body) ==
    IF Matches("python", path, body) THEN "python"
    ELSE IF Matches("rust", path, body) THEN "rust"
    ELSE IF Matches("typescript", path, body) THEN "typescript"
    ELSE IF ExpectedExtension(path) = "config" THEN "config"
    ELSE "text"

\* The fragment of the call and, once compute_states has run, its state.
TheFragment == fragments[1]
Computed == pc /= "call" /\ Len(states) = 1

\* C25: detect_language is first match wins over python, rust, typescript,
\* config, text, each of the first three steps being (extension OR keyword):
\* the language of every state is the first language of that order that the
\* path's extension or a line of the body matches, config needs a config
\* extension and no match before it, anything else is text; a .rs path with
\* a line starting with `import ` is python and a .json path with a line
\* starting with `const ` is typescript.
C25_LanguagePrecedence ==
    Computed =>
        /\ states[1].language = ExpectedLanguage(TheFragment.path, TheFragment.body)
        /\ (TheFragment.path = "LIB.RS" /\ TheFragment.body = "import os\n")
              => states[1].language = "python"
        /\ (TheFragment.path = "c.json" /\ TheFragment.body = "const x = 1;\n")
              => states[1].language = "typescript"
        /\ states[1].language = "config"
              => /\ ExpectedExtension(TheFragment.path) = "config"
                 /\ ExpectedKeywords(TheFragment.body) = {}

\* The state of a .rs fragment whose body starts with `import ` was
\* computed, and it is python.
C25_Witness ==
    /\ Computed
    /\ TheFragment.path = "LIB.RS"
    /\ TheFragment.body = "import os\n"
    /\ states[1].language = "python"

\* The score of an empty body: 0.25 * (1/1/8) + 0.25 * (1/1/120) + 0.25 * 0.5
\* + 0.15 * 1 + bonus = 0.3083 + bonus, in 1/10000.
EmptyBodyScore(language) ==
    CASE language \in {"python", "rust", "typescript"} -> 4083
      [] language = "config" -> 3583
      [] OTHER -> 3083

\* C26: a fragment with an empty body gets the language of its path's
\* extension, text without one; indent stability 0.5 and comment ratio 0;
\* every evaluation gives it the score 0.3083 plus the language's bonus,
\* within [0, 1]; and its cycle returns a result with one report, in
\* absorbed or in pending, of body_len 0, carrying that language and score,
\* with at least one iteration and one event per iteration.
C26_EmptyBodyIsScored ==
    (Computed /\ TheFragment.body = "") =>
        LET lang == states[1].language
        IN  /\ lang = (IF ExpectedExtension(TheFragment.path) = "none" THEN "text"
                       ELSE ExpectedExtension(TheFragment.path))
            /\ compute_indent_balance(TheFragment.body) = Unit \div 2
            /\ compute_comment_ratio(TheFragment.body, lang) = 0
            /\ \A e \in Indices(events) :
                  /\ events[e].hygiene_score = EmptyBodyScore(lang)
                  /\ events[e].hygiene_score \in 0..10000
            /\ Returned =>
                  /\ Len(Res.absorbed) + Len(Res.pending) = 1
                  /\ \A r \in Range(Res.absorbed) \cup Range(Res.pending) :
                        /\ r.body_len = 0
                        /\ r.language = lang
                        /\ r.hygiene_score = Some(EmptyBodyScore(lang))
                        /\ r.hash = compute_anchor_hash("")
                  /\ Res.iterations >= 1
                  /\ Len(Res.events) = Res.iterations
                  /\ Len(Res.anchors) = Len(Res.absorbed)

\* The cycle of an empty fragment without extension returned, the fragment
\* evaluated twice and pending with its score.
C26_Witness ==
    /\ Returned
    /\ TheFragment.body = ""
    /\ TheFragment.path = "notes"
    /\ Res.iterations = 2
    /\ Len(Res.pending) = 1
    /\ Res.pending[1].language = "text"
    /\ Res.pending[1].hygiene_score = Some(3083)

\* The cycle of an empty fragment with a python extension returned with the
\* fragment absorbed.
EmptyBodyAbsorbed ==
    /\ Returned
    /\ TheFragment.body = ""
    /\ Len(Res.absorbed) = 1
    /\ Res.absorbed[1].language = "python"

(***************************************************************************)
(* FusionOrchestrator.  FusionSpec runs process_fragment on one fragment:  *)
(* process_fragments(vec![fragment], 0.7, None), whose cycle is the        *)
(* run_cycle of the actions above, and then the bookkeeping of             *)
(* process_fragments.                                                      *)
(***************************************************************************)
\* FusionState::default()
FusionStateDefault == [total_fragments_processed |-> 0, total_anchors_created |-> 0]

FusionResult(absorbed_count, pending_count, anchs, score, iters) ==
    [absorbed_count |-> absorbed_count,
     pending_count  |-> pending_count,
     anchors        |-> anchs,
     hygiene_score  |-> score,
     iterations     |-> iters]

\* The fragment of the crate's test and the fragments of FragmentSpec.
TestFragment == FragmentInput("test.rs", 1, "1-10", "fn main() { println!(\"Hello\"); }")

FusionFragments ==
    {TestFragment} \cup {FragmentInput(p, 0, "1-1", b) : p \in LangPaths, b \in LangBodies}

\* self.process_fragments(vec![fragment], 0.7, None)
ProcessFragmentThreshold == 7000

FusionInit ==
    /\ NoEngine
    /\ NoApi
    /\ NoGil
    /\ NoHosted
    /\ fusion_state = Some(FusionStateDefault)
    /\ fusion_result = None
    /\ fusion_calls = <<>>
    /\ fusion_lock = None
    /\ fusion_stats = None
    /\ \E f \in FusionFragments : fragments = <<f>>
    /\ hygiene_threshold = ProcessFragmentThreshold
    /\ max_iterations = None
    /\ pc = "call"
    /\ states = <<>>
    /\ queue = <<>>
    /\ anchors = <<>>
    /\ events = <<>>
    /\ absorbed_indices = <<>>
    /\ iterations = 0
    /\ last_anchor = None
    /\ result = None
    /\ evaluated = <<>>

\* The scores of the absorbed reports that have one (filter_map).
PresentScores(reports) ==
    LET present == SelectSeq(reports, LAMBDA r : IsSome(r.hygiene_score))
    IN  [k \in 1..Len(present) |-> Unwrap(present[k].hygiene_score)]

\* process_fragments after run_native_cycle has returned: the counters are
\* updated under the write lock, the scores of the absorbed are averaged.
ProcessReturn ==
    /\ pc = "done"
    /\ fusion_result = None
    /\ LET cycle == from_data(Unwrap(result))
           st    == Unwrap(fusion_state)
           score == IF cycle.absorbed /= <<>>
                    THEN Some(SumSeq(PresentScores(cycle.absorbed)) \div Len(cycle.absorbed))
                    ELSE None
       IN  /\ fusion_state' =
                 Some([total_fragments_processed |->
                          st.total_fragments_processed
                            + Len(cycle.absorbed) + Len(cycle.pending),
                       total_anchors_created |->
                          st.total_anchors_created + Len(cycle.anchors)])
           /\ fusion_result' =
                 Some(Ok(FusionResult(Len(cycle.absorbed), Len(cycle.pending),
                                      cycle.anchors, score, cycle.iterations)))
    /\ UNCHANGED <<vars, fusion_calls, fusion_lock, fusion_stats>>

outside_fusion == <<engine_vars, api_vars, gil_vars, hosted_vars>>

FusionNext ==
    \/ Start /\ UNCHANGED outside_cycle
    \/ LoopExit /\ UNCHANGED outside_cycle
    \/ Absorb /\ UNCHANGED outside_cycle
    \/ Requeue /\ UNCHANGED outside_cycle
    \/ Assemble /\ UNCHANGED outside_cycle
    \/ ProcessReturn /\ UNCHANGED outside_fusion

FusionSpec == FusionInit /\ [][FusionNext]_all_vars

\* What the loop of run_cycle reads: with no cap, a pass depends on the
\* queue, the states and the threshold only, and the threshold is constant.
LoopReads == <<queue, states>>

\* A pass of the loop that starts and ends at the head of the loop.
LoopPass == pc = "loop" /\ pc' = "loop" /\ iterations' = iterations + 1

\* C27 (as claimed): process_fragment completes for any single fragment and
\* returns a FusionResult with iterations >= 1.  A call completes only if no
\* pass of its loop leaves everything the loop reads as it found it: with no
\* cap, such a pass is followed by the same pass again, for ever.
C27_ProcessFragmentCompletes ==
    /\ [][LoopPass => LoopReads' /= LoopReads]_all_vars
    /\ [](IsSome(fusion_result) =>
             (Unwrap(fusion_result).ok /\ Unwrap(fusion_result).value.iterations >= 1))

\* The fragments process_fragment returns for: those whose first evaluation
\* reaches the threshold.
Completes == ScoreOf(0) >= hygiene_threshold

\* What holds of process_fragment: a fragment whose score reaches 0.7 is
\* absorbed by the first pass and the call returns Ok with iterations = 1,
\* one anchor and the fragment's score; for any other fragment every pass
\* after the first leaves the queue and the states unchanged, and no result
\* is ever returned.
C27_ReturnsIffFirstScorePasses ==
    /\ [][(LoopPass /\ iterations >= 1) => (~Completes /\ LoopReads' = LoopReads)]_all_vars
    /\ [](IsSome(fusion_result) =>
             /\ Completes
             /\ Unwrap(fusion_result).value
                  = FusionResult(1, 0, <<states[1].hash>>, Some(ScoreOf(0)), 1)
             /\ Unwrap(fusion_state) = [total_fragments_processed |-> 1,
                                        total_anchors_created |-> 1])
    /\ []((pc = "loop" /\ states /= <<>> /\ ~Completes) => queue = <<0>>)

\* process_fragment returned for the fragment of the crate's test.
C27_Witness ==
    /\ fragments = <<TestFragment>>
    /\ IsSome(fusion_result)
    /\ Unwrap(fusion_result).value.iterations = 1
    /\ Unwrap(fusion_result).value.hygiene_score = Some(7229)

\* The loop has evaluated an empty fragment as often as the model explores
\* and is at its head again with the fragment queued.
FusionStillLooping ==
    /\ fragments[1].body = ""
    /\ pc = "loop"
    /\ iterations = MaxEvals
    /\ queue = <<0>>
    /\ fusion_result = None

(***************************************************************************)
(* HostedAiConnector.  HostedSpec is one connector used by one client that *)
(* makes up to MaxCalls calls, one after the other.  The remote API is the *)
(* environment: every attempt of a request fails or succeeds with a        *)
(* response the remote chooses.  A call that awaits the remote takes       *)
(* one step per attempt.  The Prometheus helpers of crate::metrics         *)
(* touch only the global registry and are left out.                        *)
(*                                                                         *)
(* `allocations` is the HashMap, `metrics` the Metrics struct, `sent` the  *)
(* number of requests the call in hand has sent, `hosted_ops` the          *)
(* configuration, the call in hand and a record of what the client has     *)
(* seen: the ids it holds (`live`) and those it has released (`released`). *)
(***************************************************************************)
MaxCalls == 4       \* calls the client makes
MaxRetries == 1     \* largest cfg.max_retries

\* A u64 is four limbs of 16 bits, most significant first.
LimbBase == 65536
U64(n) == <<0, 0, 0, n>>
U64Max == <<LimbBase - 1, LimbBase - 1, LimbBase - 1, LimbBase - 1>>

\* x * n, x + y and x / n on u64, n a small number; `overflow` says that the
\* exact result does not fit, `value` is the result modulo 2^64.
u64_mul(x, n) ==
    LET p4 == x[4] * n
        p3 == x[3] * n + (p4 \div LimbBase)
        p2 == x[2] * n + (p3 \div LimbBase)
        p1 == x[1] * n + (p2 \div LimbBase)
    IN  [value    |-> <<p1 % LimbBase, p2 % LimbBase, p3 % LimbBase, p4 % LimbBase>>,
         overflow |-> p1 \div LimbBase > 0]

u64_add(x, y) ==
    LET s4 == x[4] + y[4]
        s3 == x[3] + y[3] + (s4 \div LimbBase)
        s2 == x[2] + y[2] + (s3 \div LimbBase)
        s1 == x[1] + y[1] + (s2 \div LimbBase)
    IN  [value    |-> <<s1 % LimbBase, s2 % LimbBase, s3 % LimbBase, s4 % LimbBase>>,
         overflow |-> s1 \div LimbBase > 0]

u64_div(x, n) ==
    LET c1 == x[1]
        c2 == (c1 % n) * LimbBase + x[2]
        c3 == (c2 % n) * LimbBase + x[3]
        c4 == (c3 % n) * LimbBase + x[4]
    IN  <<c1 \div n, c2 \div n, c3 \div n, c4 \div n>>

\* Metrics::default()
MetricsDefault ==
    [allocations_total  |-> 0,
     allocations_failed |-> 0,
     inference_total    |-> 0,
     inference_failed   |-> 0,
     average_latency_ms |-> U64(0)]

GpuAllocationResponse(allocation_id, assigned_gpu) ==
    [allocation_id |-> allocation_id,
     assigned_gpu  |-> assigned_gpu,
     status        |-> "allocated"]

HostedInferenceResponse(text, duration_ms) ==
    [text |-> text, duration_ms |-> duration_ms]

\* What the remote may answer: the ids it hands out (it may hand out an id
\* again) and the durations it reports, a u64 read from its JSON.
RemoteIds == {"alloc-1", "alloc-2"}
RemoteAllocations == {GpuAllocationResponse(id, "gpu-a") : id \in RemoteIds}
RemoteInferences ==
    {HostedInferenceResponse("remote text", d) : d \in {U64(5), U64Max}}

\* The id of the mock fallback: format!("mock_{}", Uuid::new_v4()); the n-th
\* UUID drawn is unlike the ones drawn before.
mock_id(n) == "mock_" \o "uuid-" \o ToString(n)

InvalidAllocationId == "Invalid allocation ID"
mock_response(prompt) == "[Mock resp for: " \o prompt \o "]"
UnitValue == "()"

\* HashMap::insert, HashMap::remove, contains_key
insert(table, key, value) ==
    [k \in DOMAIN table \cup {key} |-> IF k = key THEN value ELSE table[k]]
remove(table, key) == [k \in DOMAIN table \ {key} |-> table[k]]
contains_key(table, key) == key \in DOMAIN table

\* HostedAiConnector::get_allocation, list_allocations, get_metrics
get_allocation(alloc_id) ==
    IF contains_key(allocations, alloc_id) THEN Some(allocations[alloc_id]) ELSE None
list_allocations == DOMAIN allocations
get_metrics == metrics

\* HostedAiConnector::new(cfg): nothing allocated, no call made.
NoCall ==
    [op |-> "none", pc |-> "idle", arg |-> "", retries |-> 0, ret |-> Ok(""),
     fallback |-> FALSE, held |-> FALSE, was_released |-> FALSE,
     before |-> [allocations |-> << >>, metrics |-> MetricsDefault]]

HostedInit ==
    /\ NoCycle
    /\ NoEngine
    /\ NoApi
    /\ NoGil
    /\ NoFusion
    /\ allocations = << >>
    /\ metrics = MetricsDefault
    /\ sent = 0
    /\ \E r \in 0..MaxRetries :
          hosted_ops = [cfg      |-> [max_retries |-> r],
                        call     |-> NoCall,
                        done     |-> 0,
                        uuids    |-> 0,
                        live     |-> {},
                        released |-> {}]

TheCall == hosted_ops.call
CanCall == TheCall.pc \in {"idle", "returned"} /\ hosted_ops.done < MaxCalls

\* The ids the client may pass: those it holds or has released, and one it
\* never got.
IdsToPass == hosted_ops.live \cup hosted_ops.released \cup {"invalid-id"}

\* A call starts: what it was given and what it found.
Begin(op, arg) ==
    [op |-> op, pc |-> "running", arg |-> arg, retries |-> 0, ret |-> Ok(""),
     fallback |-> FALSE,
     held |-> arg \in hosted_ops.live,
     was_released |-> arg \in hosted_ops.released,
     before |-> [allocations |-> allocations, metrics |-> metrics]]

\* A call returns.
Finish(call, ret) == [call EXCEPT !.pc = "returned", !.ret = ret]

\* request_vgpu up to the first attempt: self.metrics.write().allocations_total += 1
RequestVgpuBegin ==
    /\ CanCall
    /\ metrics' = [metrics EXCEPT !.allocations_total = @ + 1]
    /\ hosted_ops' = [hosted_ops EXCEPT !.call = [Begin("request_vgpu", "") EXCEPT !.pc = "post"]]
    /\ sent' = 0
    /\ UNCHANGED allocations

\* post_with_retry / delete_with_retry: an attempt fails and
\* retries < self.cfg.max_retries: sleep, then try again.
Retry ==
    /\ TheCall.pc \in {"post", "delete"}
    /\ TheCall.retries < hosted_ops.cfg.max_retries
    /\ sent' = sent + 1
    /\ hosted_ops' = [hosted_ops EXCEPT !.call.retries = @ + 1]
    /\ UNCHANGED <<allocations, metrics>>

\* The last attempt has failed: post_with_retry returns Err(e).
LastAttemptFails ==
    /\ TheCall.pc \in {"post", "delete"}
    /\ ~(TheCall.retries < hosted_ops.cfg.max_retries)

\* request_vgpu, Ok(resp): the resp is inserted under its id.
RequestVgpuOk ==
    /\ TheCall.op = "request_vgpu"
    /\ TheCall.pc = "post"
    /\ \E resp \in RemoteAllocations :
          /\ allocations' = insert(allocations, resp.allocation_id, resp)
          /\ hosted_ops' =
                [hosted_ops EXCEPT
                    !.call = Finish(TheCall, Ok(resp.allocation_id)),
                    !.done = @ + 1,
                    !.live = @ \cup {resp.allocation_id},
                    !.released = @ \ {resp.allocation_id}]
    /\ sent' = sent + 1
    /\ UNCHANGED metrics

\* request_vgpu, Err(e): the mock fallback.
\* Fault: the mock allocation is returned but not recorded.
RequestVgpuFallback_NotInserted ==
    /\ TheCall.op = "request_vgpu"
    /\ LastAttemptFails
    /\ LET allocation_id == mock_id(hosted_ops.uuids + 1)
       IN  /\ metrics' = [metrics EXCEPT !.allocations_failed = @ + 1]
           /\ allocations' = allocations
           /\ hosted_ops' =
                 [hosted_ops EXCEPT
                     !.call = [Finish(TheCall, Ok(allocation_id)) EXCEPT !.fallback = TRUE],
                     !.done = @ + 1,
                     !.uuids = @ + 1,
                     !.live = @ \cup {allocation_id}]
    /\ sent' = sent + 1
RequestVgpuFallback ==
    /\ TheCall.op = "request_vgpu"
    /\ LastAttemptFails
    /\ LET allocation_id == mock_id(hosted_ops.uuids + 1)
           resp      == GpuAllocationResponse(allocation_id, "mock-gpu-001")
       IN  /\ metrics' = [metrics EXCEPT !.allocations_failed = @ + 1]
           /\ allocations' = insert(allocations, allocation_id, resp)
           /\ hosted_ops' =
                 [hosted_ops EXCEPT
                     !.call = [Finish(TheCall, Ok(allocation_id)) EXCEPT !.fallback = TRUE],
                     !.done = @ + 1,
                     !.uuids = @ + 1,
                     !.live = @ \cup {allocation_id}]
    /\ sent' = sent + 1

\* inference with an id that is not in the table: inference_total += 1, then
\* anyhow::bail!("Invalid allocation ID")
InferenceInvalid ==
    /\ CanCall
    /\ \E allocation_id \in IdsToPass :
          /\ ~contains_key(allocations, allocation_id)
          /\ hosted_ops' =
                [hosted_ops EXCEPT
                    !.call = Finish(Begin("inference", allocation_id), Err(InvalidAllocationId)),
                    !.done = @ + 1]
    /\ metrics' = [metrics EXCEPT !.inference_total = @ + 1]
    /\ sent' = 0
    /\ UNCHANGED allocations

\* inference with an id that is in the table, up to the first attempt
InferenceBegin ==
    /\ CanCall
    /\ \E allocation_id \in IdsToPass :
          /\ contains_key(allocations, allocation_id)
          /\ hosted_ops' =
                [hosted_ops EXCEPT
                    !.call = [Begin("inference", allocation_id) EXCEPT !.pc = "post"]]
    /\ metrics' = [metrics EXCEPT !.inference_total = @ + 1]
    /\ sent' = 0
    /\ UNCHANGED allocations

\* metrics.average_latency_ms * (total - 1) + resp.duration_ms, and the
\* quotient by total = metrics.inference_total
latency_product == u64_mul(metrics.average_latency_ms, metrics.inference_total - 1)
latency_sum(resp) == u64_add(latency_product.value, resp.duration_ms)
latency_overflows(resp) ==
    latency_product.overflow \/ latency_sum(resp).overflow
latency_average(resp) ==
    u64_div(latency_sum(resp).value, metrics.inference_total)

\* inference, Ok(resp): the average is updated and the text returned.
InferenceOk ==
    /\ TheCall.op = "inference"
    /\ TheCall.pc = "post"
    /\ \E resp \in RemoteInferences :
          /\ ~latency_overflows(resp)
          /\ metrics' = [metrics EXCEPT !.average_latency_ms = latency_average(resp)]
          /\ hosted_ops' = [hosted_ops EXCEPT !.call = Finish(TheCall, Ok(resp.text)),
                                              !.done = @ + 1]
    /\ sent' = sent + 1
    /\ UNCHANGED allocations

\* inference, Ok(resp), and the u64 arithmetic of the average overflows.
\* With overflow checks (the dev and test profiles) the thread panics: the
\* call returns nothing.
InferenceOverflowPanics ==
    /\ TheCall.op = "inference"
    /\ TheCall.pc = "post"
    /\ \E resp \in RemoteInferences : latency_overflows(resp)
    /\ hosted_ops' = [hosted_ops EXCEPT !.call.pc = "panicked"]
    /\ sent' = sent + 1
    /\ UNCHANGED <<allocations, metrics>>

\* Without overflow checks (the release profile) the arithmetic wraps.
InferenceOverflowWraps ==
    /\ TheCall.op = "inference"
    /\ TheCall.pc = "post"
    /\ \E resp \in RemoteInferences :
          /\ latency_overflows(resp)
          /\ metrics' = [metrics EXCEPT !.average_latency_ms = latency_average(resp)]
          /\ hosted_ops' = [hosted_ops EXCEPT !.call = Finish(TheCall, Ok(resp.text)),
                                              !.done = @ + 1]
    /\ sent' = sent + 1
    /\ UNCHANGED allocations

\* inference, Err(e): the mock resp.
InferenceFallback ==
    /\ TheCall.op = "inference"
    /\ LastAttemptFails
    /\ metrics' = [metrics EXCEPT !.inference_failed = @ + 1]
    /\ hosted_ops' =
          [hosted_ops EXCEPT
              !.call = [Finish(TheCall, Ok(mock_response("prompt"))) EXCEPT !.fallback = TRUE],
              !.done = @ + 1]
    /\ sent' = sent + 1
    /\ UNCHANGED allocations

\* release of a mock allocation: removed, no request is sent.
ReleaseMock ==
    /\ CanCall
    /\ \E alloc_id \in IdsToPass :
          /\ starts_with(alloc_id, "mock_")
          /\ allocations' = remove(allocations, alloc_id)
          /\ hosted_ops' =
                [hosted_ops EXCEPT
                    !.call = Finish(Begin("release", alloc_id), Ok(UnitValue)),
                    !.done = @ + 1,
                    !.live = @ \ {alloc_id},
                    !.released = @ \cup {alloc_id}]
    /\ sent' = 0
    /\ UNCHANGED metrics

\* release of any other id, up to the first attempt: the entry is removed
\* before the DELETE is sent.
\* Fault: the entry is kept until the remote has confirmed.
ReleaseBegin_KeepsEntry ==
    /\ CanCall
    /\ \E alloc_id \in IdsToPass :
          /\ ~starts_with(alloc_id, "mock_")
          /\ allocations' = allocations
          /\ hosted_ops' =
                [hosted_ops EXCEPT
                    !.call = [Begin("release", alloc_id) EXCEPT !.pc = "delete"],
                    !.live = @ \ {alloc_id}]
    /\ sent' = 0
    /\ UNCHANGED metrics
ReleaseBegin ==
    /\ CanCall
    /\ \E alloc_id \in IdsToPass :
          /\ ~starts_with(alloc_id, "mock_")
          /\ allocations' = remove(allocations, alloc_id)
          /\ hosted_ops' =
                [hosted_ops EXCEPT
                    !.call = [Begin("release", alloc_id) EXCEPT !.pc = "delete"],
                    !.live = @ \ {alloc_id}]
    /\ sent' = 0
    /\ UNCHANGED metrics

\* release, Ok(_)
ReleaseOk ==
    /\ TheCall.op = "release"
    /\ TheCall.pc = "delete"
    /\ hosted_ops' = [hosted_ops EXCEPT !.call = Finish(TheCall, Ok(UnitValue)),
                                        !.done = @ + 1,
                                        !.released = @ \cup {TheCall.arg}]
    /\ sent' = sent + 1
    /\ UNCHANGED <<allocations, metrics>>

\* release, Err(e)
ReleaseErr ==
    /\ TheCall.op = "release"
    /\ LastAttemptFails
    /\ hosted_ops' = [hosted_ops EXCEPT !.call = Finish(TheCall, Err("HTTP Error")),
                                        !.done = @ + 1,
                                        !.released = @ \cup {TheCall.arg}]
    /\ sent' = sent + 1
    /\ UNCHANGED <<allocations, metrics>>

outside_hosted == <<vars, engine_vars, api_vars, gil_vars, fusion_vars>>

HostedNext ==
    \/ RequestVgpuBegin /\ UNCHANGED outside_hosted
    \/ Retry /\ UNCHANGED outside_hosted
    \/ RequestVgpuOk /\ UNCHANGED outside_hosted
    \/ RequestVgpuFallback /\ UNCHANGED outside_hosted
    \/ InferenceInvalid /\ UNCHANGED outside_hosted
    \/ InferenceBegin /\ UNCHANGED outside_hosted
    \/ InferenceOk /\ UNCHANGED outside_hosted
    \/ InferenceOverflowPanics /\ UNCHANGED outside_hosted
    \/ InferenceOverflowWraps /\ UNCHANGED outside_hosted
    \/ InferenceFallback /\ UNCHANGED outside_hosted
    \/ ReleaseMock /\ UNCHANGED outside_hosted
    \/ ReleaseBegin /\ UNCHANGED outside_hosted
    \/ ReleaseOk /\ UNCHANGED outside_hosted
    \/ ReleaseErr /\ UNCHANGED outside_hosted

HostedSpec == HostedInit /\ [][HostedNext]_all_vars

\* The call in hand has returned / is a call of the operation.
CallReturned(op) == TheCall.op = op /\ TheCall.pc = "returned"
Before == TheCall.before

C29_InferenceOkForKnownId ==
    (TheCall.op = "inference" /\ TheCall.pc \in {"returned", "panicked"}) =>
        IF ~contains_key(Before.allocations, TheCall.arg)
        THEN /\ TheCall.pc = "returned"
             /\ TheCall.ret = Err(InvalidAllocationId)
             /\ sent = 0
             /\ allocations = Before.allocations
        ELSE /\ TheCall.pc = "returned"
             /\ TheCall.ret.ok
             /\ IF TheCall.fallback
                THEN /\ TheCall.ret.value = mock_response("prompt")
                     /\ sent = hosted_ops.cfg.max_retries + 1
                ELSE TheCall.ret.value = "remote text"

\* What holds of inference: the above, except that a call whose id is in the
\* table ends in a panic instead of Ok when the remote has answered and the
\* u64 arithmetic of the latency average overflows on a build with overflow
\* checks.
InferenceOkUnlessLatencyOverflows ==
    (TheCall.op = "inference" /\ TheCall.pc \in {"returned", "panicked"}) =>
        IF ~contains_key(Before.allocations, TheCall.arg)
        THEN /\ TheCall.pc = "returned"
             /\ TheCall.ret = Err(InvalidAllocationId)
             /\ sent = 0
             /\ allocations = Before.allocations
        ELSE IF TheCall.pc = "panicked"
        THEN /\ metrics.inference_total >= 2
             /\ metrics.average_latency_ms /= U64(0)
             /\ \E resp \in RemoteInferences : latency_overflows(resp)
        ELSE /\ TheCall.ret.ok
             /\ allocations = Before.allocations

\* inference was called with an id of the table, the remote answered, and
\* the call panicked.
InferencePanicked ==
    /\ TheCall.op = "inference"
    /\ TheCall.pc = "panicked"
    /\ contains_key(allocations, TheCall.arg)

\* inference returned the invalid-allocation error for an id never handed out.
InferenceRejected ==
    /\ CallReturned("inference")
    /\ TheCall.arg = "invalid-id"
    /\ TheCall.ret = Err(InvalidAllocationId)
    /\ allocations /= << >>

\* C30: an id that request_vgpu returned is in the table (get_allocation is
\* Some) until release is called with it; once release has returned for an
\* id, Ok or Err, and until request_vgpu returns that id again,
\* get_allocation is None, the id is not in list_allocations, and inference
\* with it returns the invalid-allocation error.
C30_AllocationLifecycle ==
    /\ \A id \in hosted_ops.live :
          /\ IsSome(get_allocation(id))
          /\ Unwrap(get_allocation(id)).allocation_id = id
    /\ \A id \in hosted_ops.released :
          /\ get_allocation(id) = None
          /\ id \notin list_allocations
    /\ (TheCall.op = "release" /\ TheCall.pc \in {"delete", "returned"}) =>
          get_allocation(TheCall.arg) = None
    /\ (TheCall.op = "inference" /\ TheCall.was_released) =>
          (TheCall.pc = "returned" /\ TheCall.ret = Err(InvalidAllocationId))

\* inference was refused for an id of the remote that had been allocated and
\* released, while another allocation is still held.
C30_Witness ==
    /\ CallReturned("inference")
    /\ TheCall.was_released
    /\ TheCall.arg \in RemoteIds
    /\ TheCall.ret = Err(InvalidAllocationId)
    /\ hosted_ops.live /= {}

\* release returned Err for an id the client held.
ReleaseFailed ==
    /\ CallReturned("release")
    /\ TheCall.held
    /\ ~TheCall.ret.ok
    /\ get_allocation(TheCall.arg) = None

(***************************************************************************)
(* ScorerSpec: run_cycle on one fragment, over paths of every language and *)
(* bodies without keywords that have blank lines, whitespace-only lines    *)
(* and lines led by each comment marker.                                   *)
(***************************************************************************)
ScorerPaths == {"a.py", "lib.rs", "m.ts", "c.json", "notes"}

ScorerBodies ==
    {"", "x = 1\n", "a b\n\nc\n", "\n\n", "   \n", "# c\nx\n", "// c\nx\n",
     "/* c */\nx\n", "  # c\n\n  // d\n"}

ScorerInit ==
    /\ NoEngine
    /\ NoApi
    /\ NoGil
    /\ NoFusion
    /\ NoHosted
    /\ \E p \in ScorerPaths, b \in ScorerBodies :
          fragments = <<FragmentInput(p, 0, "1-1", b)>>
    /\ hygiene_threshold \in FragmentThresholds
    /\ max_iterations \in FragmentCaps
    /\ pc = "call"
    /\ states = <<>>
    /\ queue = <<>>
    /\ anchors = <<>>
    /\ events = <<>>
    /\ absorbed_indices = <<>>
    /\ iterations = 0
    /\ last_anchor = None
    /\ result = None
    /\ evaluated = <<>>

ScorerSpec == ScorerInit /\ [][FragmentNext]_vars

\* The counts of a body taken over its non-blank lines only.
NonBlankChars(body) ==
    SumSeq([i \in 1..Len(non_blank_lines(body)) |-> Len(non_blank_lines(body)[i])])
NonBlankTokens(body) ==
    SumSeq([i \in 1..Len(non_blank_lines(body)) |->
                split_whitespace_count(non_blank_lines(body)[i])])

\* C31 (as claimed): the scorer's line_count, char_count and token_count
\* are computed over the non-blank lines of the body only (blank lines and
\* their characters are not counted), each floored at 1.
C31_CountsOverNonBlankLines ==
    Computed =>
        /\ line_count(TheFragment.body) = Max(Len(non_blank_lines(TheFragment.body)), 1)
        /\ char_count(TheFragment.body) = Max(NonBlankChars(TheFragment.body), 1)
        /\ token_count(TheFragment.body) = Max(NonBlankTokens(TheFragment.body), 1)

\* The lines, characters and tokens of each body of ScorerBodies, counted by
\* hand over the whole body: every line, blank ones included, and every
\* character, line ends included.
WholeBodyCounts(body) ==
    CASE body = "" -> <<0, 0, 0>>
      [] body = "x = 1\n" -> <<1, 6, 3>>
      [] body = "a b\n\nc\n" -> <<3, 7, 3>>
      [] body = "\n\n" -> <<2, 2, 0>>
      [] body = "   \n" -> <<1, 4, 0>>
      [] body = "# c\nx\n" -> <<2, 6, 3>>
      [] body = "// c\nx\n" -> <<2, 7, 3>>
      [] body = "/* c */\nx\n" -> <<2, 10, 4>>
      [] body = "  # c\n\n  // d\n" -> <<3, 14, 4>>

\* C31 (amended): the scorer's line_count and char_count are computed over
\* the whole body, blank lines and their characters included, and its
\* token_count over the whitespace-separated tokens of the body, which are
\* those of its non-blank lines; each is floored at 1.  A text fragment
\* with one blank line between two lines is scored 0.4361 at every
\* evaluation (3 lines, 7 characters, 3 tokens).
C31_CountsOverWholeBody ==
    Computed =>
        /\ line_count(TheFragment.body) = Max(WholeBodyCounts(TheFragment.body)[1], 1)
        /\ char_count(TheFragment.body) = Max(WholeBodyCounts(TheFragment.body)[2], 1)
        /\ token_count(TheFragment.body) = Max(WholeBodyCounts(TheFragment.body)[3], 1)
        /\ token_count(TheFragment.body) = Max(NonBlankTokens(TheFragment.body), 1)
        /\ (TheFragment.body = "a b\n\nc\n" /\ states[1].language = "text") =>
              \A e \in Indices(events) : events[e].hygiene_score = 4361

\* A body with a blank line between two lines was scored: three lines and
\* seven characters were counted where two non-blank lines hold four
\* characters, and the score is 0.4361.
BlankLineCounted ==
    /\ Len(events) >= 1
    /\ TheFragment.path = "notes"
    /\ events[1].hygiene_score = 4361
    /\ TheFragment.body = "a b\n\nc\n"
    /\ line_count(TheFragment.body) = 3
    /\ Len(non_blank_lines(TheFragment.body)) = 2
    /\ char_count(TheFragment.body) = 7
    /\ NonBlankChars(TheFragment.body) = 4

\* The markers that make a line a comment in each language as claimed.
ClaimedComment(trimmed, language) ==
    CASE language \in {"python", "config"} -> starts_with(trimmed, "#")
      [] language \in {"rust", "typescript"} ->
            starts_with(trimmed, "//") \/ starts_with(trimmed, "/*")
      [] OTHER -> starts_with(trimmed, "#") \/ starts_with(trimmed, "//")

\* The comment lines of each body of ScorerBodies in each language, counted
\* by hand: lines led by `#` for python, by `//` or `/*` for rust and
\* typescript, by `#` or `//` for config and for any other language.
CommentLines(body, language) ==
    LET hash     == IF body \in {"# c\nx\n", "  # c\n\n  // d\n"} THEN 1 ELSE 0
        slashes  == IF body \in {"// c\nx\n", "  # c\n\n  // d\n"} THEN 1 ELSE 0
        slashast == IF body = "/* c */\nx\n" THEN 1 ELSE 0
    IN  CASE language = "python" -> hash
          [] language \in {"rust", "typescript"} -> slashes + slashast
          [] OTHER -> hash + slashes

\* C32 (as claimed): a non-blank line counts as a comment by the language's
\* markers only: for python and config only a leading `#` (a line starting
\* with `//` is not a comment), for rust and typescript only a leading `//`
\* or `/*`, and for any other language a leading `#` or `//`.
C32_CommentMarkersPerLanguage ==
    Computed =>
        LET lang == states[1].language
            kept == non_blank_lines(TheFragment.body)
        IN  \A i \in 1..Len(kept) :
               is_comment(trim(kept[i]), lang) <=> ClaimedComment(trim(kept[i]), lang)

\* C32 (amended): a non-blank line counts as a comment by the language's
\* markers only: for python only a leading `#`, for rust and typescript
\* only a leading `//` or `/*`, and for config and any other language a
\* leading `#` or `//`.  The comment ratio is the number of such lines over
\* the number of non-blank lines, and a config fragment of a `//` line and
\* a plain line is scored 0.4104 at every evaluation.
C32_CommentMarkersConfigAsOther ==
    Computed =>
        LET body == TheFragment.body
            lang == states[1].language
            kept == non_blank_lines(body)
        IN  /\ \A i \in 1..Len(kept) :
                  is_comment(trim(kept[i]), lang)
                      <=> ClaimedComment(trim(kept[i]),
                                         IF lang = "config" THEN "text" ELSE lang)
            /\ Len(kept) > 0 =>
                  compute_comment_ratio(body, lang)
                      = (CommentLines(body, lang) * Unit) \div Len(kept)
            /\ (body = "// c\nx\n" /\ lang = "config") =>
                  \A e \in Indices(events) : events[e].hygiene_score = 4104

\* A config fragment whose first line starts with `//` was scored with that
\* line counted as a comment: ratio 1/2, score 0.4104.
ConfigSlashesCounted ==
    /\ Len(events) >= 1
    /\ events[1].hygiene_score = 4104
    /\ TheFragment.path = "c.json"
    /\ TheFragment.body = "// c\nx\n"
    /\ states[1].language = "config"
    /\ compute_comment_ratio(TheFragment.body, "config") = Unit \div 2
    /\ events[1].hygiene_score = hygiene_score(TheFragment.body, "config")

(***************************************************************************)
(* Further properties of run_cycle, under Spec.                            *)
(***************************************************************************)

\* C33: re-scoring is idempotent within a cycle: every event of the same
\* fragment (input position) carries the same hygiene_score, so a fragment
\* that is requeued once is requeued at every later evaluation, and every
\* fragment_absorbed event has iteration_index <= batch size (all
\* absorptions happen during the first pass over the queue).
C33_RescoringIsIdempotent ==
    /\ \A j, k \in Indices(events) :
          evaluated[j] = evaluated[k]
              => events[j].hygiene_score = events[k].hygiene_score
    /\ \A j \in RequeuedAt : \A k \in Indices(events) :
          (j < k /\ evaluated[j] = evaluated[k]) => k \in RequeuedAt
    /\ \A k \in AbsorbedAt :
          /\ events[k].iteration_index <= Len(fragments)
          /\ events[k].iteration_index = evaluated[k] + 1
    /\ \A k \in Indices(events) :
          events[k].hygiene_score = FragmentScore(evaluated[k] + 1)

\* A batch of two whose first fragment was requeued twice with the same
\* score around the absorption of the second, in the last iteration of the
\* first pass.
C33_Witness ==
    /\ Len(fragments) = 2
    /\ Len(events) = 3
    /\ evaluated = <<0, 1, 0>>
    /\ events[1].event = "fragment_requeued"
    /\ events[2].event = "fragment_absorbed"
    /\ events[2].iteration_index = 2
    /\ events[3].event = "fragment_requeued"
    /\ events[3].hygiene_score = events[1].hygiene_score

\* The last element of anchors, None if anchors is empty.
LastOf(anchs) == IF anchs = <<>> THEN None ELSE Some(anchs[Len(anchs)])

\* The events evs form one chain that starts at None and ends at the last
\* of anchs.
IsAnchorChain(evs, anchs) ==
    /\ \A k \in 1..(Len(evs) - 1) : evs[k + 1].anchor_prev = evs[k].anchor_next
    /\ evs /= <<>> =>
          /\ evs[1].anchor_prev = None
          /\ evs[Len(evs)].anchor_next = LastOf(anchs)

\* C34: the event log forms one continuous anchor chain: for every pair of
\* consecutive events, events[k+1].anchor_prev = events[k].anchor_next; the
\* first event has anchor_prev = None; and the last event's anchor_next
\* equals the last element of anchors (None if anchors is empty).  It holds
\* of the log in every state of the loop and of the returned result.
C34_AnchorChain ==
    /\ IsAnchorChain(events, anchors)
    /\ Returned => IsAnchorChain(Res.events, Res.anchors)

\* A returned log of three events: a requeue before any anchor, an
\* absorption, and a requeue that carries the new anchor on both sides.
C34_Witness ==
    /\ Returned
    /\ Len(Res.events) = 3
    /\ Len(Res.anchors) = 1
    /\ Res.events[1].anchor_next = None
    /\ Res.events[2].event = "fragment_absorbed"
    /\ Res.events[2].anchor_prev = None
    /\ Res.events[2].anchor_next = Some(Res.anchors[1])
    /\ Res.events[3].event = "fragment_requeued"
    /\ Res.events[3].anchor_prev = Some(Res.anchors[1])
    /\ Res.events[3].anchor_next = Some(Res.anchors[1])

\* The number of places of the sequence q that hold x.
Count(q, x) == Cardinality({k \in Indices(q) : q[k] = x})

\* C35: counted by input position rather than by idx value, every returned
\* result satisfies len(absorbed) + len(pending) = batch length, and in
\* every loop state each input position is in exactly one of the queue and
\* the absorbed list, once; this holds also when the caller reuses the same
\* idx value for several fragments.
C35_PositionsPartition ==
    /\ pc \in {"loop", "assemble", "done"} =>
          /\ \A p \in Positions : Count(queue, p) + Count(absorbed_indices, p) = 1
          /\ Range(queue) \cup Range(absorbed_indices) \subseteq Positions
          /\ Len(queue) + Len(absorbed_indices) = Len(fragments)
    /\ Returned =>
          /\ Len(Res.absorbed) + Len(Res.pending) = Len(fragments)
          /\ Len(Res.absorbed) = Len(absorbed_indices)
          /\ Len(Res.pending) = Len(queue)

\* A batch of three fragments that all carry idx 0 returned with one
\* absorbed and two pending.
C35_Witness ==
    /\ Returned
    /\ Len(fragments) = 3
    /\ \A i \in Indices(fragments) : fragments[i].idx = 0
    /\ Len(Res.absorbed) = 1
    /\ Len(Res.pending) = 2
    /\ IdxSet(Res.absorbed) = IdxSet(Res.pending)

\* The input positions not absorbed so far, in input order.
NotAbsorbed ==
    SelectSeq([i \in 1..Len(fragments) |-> i - 1],
              LAMBDA p : p \notin Range(absorbed_indices))

\* q is sorted turned by r places: its elements from place r + 1 on,
\* followed by its first r elements.
Rotated(sorted, r) ==
    SubSeq(sorted, r + 1, Len(sorted)) \o SubSeq(sorted, 1, r)
IsRotation(q, sorted) == \E r \in 0..Len(sorted) : q = Rotated(sorted, r)

\* The position the loop evaluates after position p: the next position not
\* absorbed behind p in input order, the first one not absorbed if there is
\* none behind p.
NextAfter(p) ==
    LET rest   == Range(NotAbsorbed)
        behind == {x \in rest : x > p}
    IN  IF behind /= {} THEN CHOOSE x \in behind : \A y \in behind : x <= y
        ELSE CHOOSE x \in rest : \A y \in rest : x <= y

\* C36: `pending` is always a cyclic rotation of the not-yet-absorbed
\* fragments taken in input order: requeues never change the relative
\* cyclic order of fragments, so when the cap stops the loop the first
\* pending fragment is the one that would have been evaluated next.  In
\* every state of the loop the queue is such a rotation, headed by the
\* position that follows the last evaluated one; the pending list of the
\* result reports the queue place by place.
C36_PendingIsRotation ==
    /\ pc \in {"loop", "assemble", "done"} =>
          /\ IsRotation(queue, NotAbsorbed)
          /\ queue /= <<>> =>
                front(queue) = (IF evaluated = <<>> THEN 0
                                ELSE NextAfter(evaluated[Len(evaluated)]))
    /\ Returned =>
          /\ Len(Res.pending) = Len(queue)
          /\ \A k \in Indices(Res.pending) :
                /\ Res.pending[k].path = fragments[queue[k] + 1].path
                /\ Res.pending[k].idx = fragments[queue[k] + 1].idx
                /\ Res.pending[k].hash = compute_anchor_hash(fragments[queue[k] + 1].body)

\* A batch of three stopped by a cap of 2 after the requeue of position 0
\* and the absorption of position 1: pending is <<2, 0>>, headed by the
\* position that was never evaluated.
C36_Witness ==
    /\ Returned
    /\ max_iterations = Some(2)
    /\ Len(fragments) = 3
    /\ evaluated = <<0, 1>>
    /\ absorbed_indices = <<1>>
    /\ queue = <<2, 0>>
    /\ Len(Res.pending) = 2
    /\ Res.pending[1].hygiene_score = None

\* A batch of three requeued fragments during the second pass: the queue is
\* the input order turned by one place.
QueueTurnedAfterFullPass ==
    /\ pc = "loop"
    /\ evaluated = <<0, 1, 2, 0>>
    /\ queue = <<1, 2, 0>>

\* C37: with max_iterations = Some(0) on a non-empty batch the cycle
\* performs no evaluation: iterations = 0, events, absorbed and anchors are
\* empty, and pending lists every fragment in input order with hash,
\* fingerprint and language filled in and hygiene_score absent.
C37_CapZeroEvaluatesNothing ==
    (max_iterations = Some(0) /\ fragments /= <<>>) =>
        /\ iterations = 0
        /\ events = <<>>
        /\ evaluated = <<>>
        /\ Returned =>
              /\ Res.iterations = 0
              /\ Res.events = <<>>
              /\ Res.absorbed = <<>>
              /\ Res.anchors = <<>>
              /\ Len(Res.pending) = Len(fragments)
              /\ \A k \in Indices(fragments) :
                    /\ Res.pending[k].path = fragments[k].path
                    /\ Res.pending[k].idx = fragments[k].idx
                    /\ Res.pending[k].lines = fragments[k].lines
                    /\ Res.pending[k].body_len = Len(fragments[k].body)
                    /\ Res.pending[k].hash = compute_anchor_hash(fragments[k].body)
                    /\ Res.pending[k].fingerprint
                          = compute_fingerprint(fragments[k].body)
                    /\ Res.pending[k].language
                          = detect_language(fragments[k].path, fragments[k].body)
                    /\ Res.pending[k].language \in {"python", "text"}
                    /\ Res.pending[k].hygiene_score = None

\* A batch of three returned under a cap of 0 and a threshold every score
\* passes: all three are pending, the first one a python fragment.
C37_Witness ==
    /\ Returned
    /\ max_iterations = Some(0)
    /\ hygiene_threshold = 0
    /\ Len(fragments) = 3
    /\ Len(Res.pending) = 3
    /\ Res.pending[1].language = "python"
    /\ Res.pending[3].language = "text"
    /\ Res.iterations = 0

(***************************************************************************)
(* OrchestratorSpec: several tasks call process_fragments on one           *)
(* FusionOrchestrator.  A call runs its cycle (a function of its           *)
(* arguments, run_cycle above), takes the write guard of `state`, adds to  *)
(* each counter by a load and a store, drops the guard and returns; a call *)
(* whose cycle does not end never leaves run_native_cycle.  stats()        *)
(* copies the counters under the read guard; its thread_count, a constant  *)
(* of the engine, is left out.                                             *)
(***************************************************************************)
MaxTasks == 2       \* tasks that call the orchestrator

FusionTasks == 1..MaxTasks

\* The arguments of the calls: an empty batch, a capped batch of two with
\* one fragment absorbed, a batch of three absorbed whole, and an uncapped
\* call whose fragment never passes.
FusionCallArgs ==
    {[frags |-> <<>>, thr |-> 7000, cap |-> None],
     [frags |-> <<FragmentInput("A.PY", 0, "1-2", BodyDef),
                  FragmentInput("notes", 1, "1-1", BodyEmpty)>>,
      thr |-> 5000, cap |-> Some(3)],
     [frags |-> <<FragmentInput("A.PY", 0, "1-2", BodyDef),
                  FragmentInput("notes", 0, "1-1", BodyEmpty),
                  FragmentInput("notes", 2, "1-1", BodyEmpty)>>,
      thr |-> 0, cap |-> None],
     [frags |-> <<FragmentInput("notes", 0, "1-1", BodyEmpty)>>,
      thr |-> 7000, cap |-> None]}

\* What run_native_cycle returns for each of these arguments, None where
\* its cycle does not end: the cycle is a function of the arguments.
NativeCycles ==
    [a \in FusionCallArgs |->
        IF Returns(a.frags, a.thr, a.cap)
        THEN Some(run_native_cycle(a.frags, a.thr, a.cap))
        ELSE None]

FusionCall(a) ==
    [pc |-> "call", args |-> a, cycle |-> None, loaded |-> 0, ret |-> None]

OrchestratorInit ==
    /\ NoEngine
    /\ NoCycle
    /\ NoApi
    /\ NoGil
    /\ NoHosted
    /\ fusion_state = Some(FusionStateDefault)
    /\ fusion_result = None
    /\ fusion_calls \in [FusionTasks -> {FusionCall(a) : a \in FusionCallArgs}]
    /\ fusion_lock = None
    /\ fusion_stats = None

\* let cycle = self.engine.run_native_cycle(fragments, hygiene_threshold,
\* max_iterations).map_err(..)?;
\* A call whose cycle does not end stays in run_native_cycle ("cycling").
PfRunCycle(t) ==
    /\ fusion_calls[t].pc = "call"
    /\ LET a == fusion_calls[t].args
       IN  IF IsSome(NativeCycles[a])
           THEN LET cycle == Unwrap(NativeCycles[a])
                IN  fusion_calls' =
                       [fusion_calls EXCEPT
                           ![t].pc = IF cycle.ok THEN "cycled" ELSE "returned",
                           ![t].cycle = IF cycle.ok THEN Some(cycle.value) ELSE None,
                           ![t].ret = IF cycle.ok THEN None
                                      ELSE Some(Err("Harpoon cycle failed"))]
           ELSE fusion_calls' = [fusion_calls EXCEPT ![t].pc = "cycling"]
    /\ UNCHANGED <<fusion_state, fusion_result, fusion_lock, fusion_stats>>

\* let mut state = self.state.write();
\* Fault: the guard is handed out while another task holds it.
PfWrite_NotExclusive(t) ==
    /\ fusion_calls[t].pc = "cycled"
    /\ fusion_lock' = Some(t)
    /\ fusion_calls' = [fusion_calls EXCEPT ![t].pc = "fragments"]
    /\ UNCHANGED <<fusion_state, fusion_result, fusion_stats>>
PfWrite(t) ==
    /\ fusion_calls[t].pc = "cycled"
    /\ fusion_lock = None
    /\ fusion_lock' = Some(t)
    /\ fusion_calls' = [fusion_calls EXCEPT ![t].pc = "fragments"]
    /\ UNCHANGED <<fusion_state, fusion_result, fusion_stats>>

\* The left-hand side of a `+=` on a counter is read.
PfLoad(t) ==
    /\ fusion_calls[t].pc \in {"fragments", "anchors"}
    /\ fusion_calls' =
          [fusion_calls EXCEPT
              ![t].loaded = IF fusion_calls[t].pc = "fragments"
                            THEN Unwrap(fusion_state).total_fragments_processed
                            ELSE Unwrap(fusion_state).total_anchors_created,
              ![t].pc = IF fusion_calls[t].pc = "fragments" THEN "fragments_loaded"
                        ELSE "anchors_loaded"]
    /\ UNCHANGED <<fusion_state, fusion_result, fusion_lock, fusion_stats>>

\* state.total_fragments_processed += cycle.get_absorbed().len()
\*                                      + cycle.get_pending().len();
\* state.total_anchors_created += cycle.get_anchors().len();
PfStore(t) ==
    /\ fusion_calls[t].pc \in {"fragments_loaded", "anchors_loaded"}
    /\ LET cycle == Unwrap(fusion_calls[t].cycle)
           st    == Unwrap(fusion_state)
       IN  IF fusion_calls[t].pc = "fragments_loaded"
           THEN /\ fusion_state' =
                      Some([st EXCEPT !.total_fragments_processed =
                               fusion_calls[t].loaded
                                 + Len(cycle.absorbed) + Len(cycle.pending)])
                /\ fusion_calls' = [fusion_calls EXCEPT ![t].pc = "anchors"]
           ELSE /\ fusion_state' =
                      Some([st EXCEPT !.total_anchors_created =
                               fusion_calls[t].loaded + Len(cycle.anchors)])
                /\ fusion_calls' = [fusion_calls EXCEPT ![t].pc = "updated"]
    /\ UNCHANGED <<fusion_result, fusion_lock, fusion_stats>>

\* The block of the guard ends: the guard is dropped.
PfUnlock(t) ==
    /\ fusion_calls[t].pc = "updated"
    /\ fusion_lock' = None
    /\ fusion_calls' = [fusion_calls EXCEPT ![t].pc = "unlocked"]
    /\ UNCHANGED <<fusion_state, fusion_result, fusion_stats>>

\* The average of the absorbed scores is taken and the FusionResult returned.
PfReturn(t) ==
    /\ fusion_calls[t].pc = "unlocked"
    /\ LET cycle == Unwrap(fusion_calls[t].cycle)
           score == IF cycle.absorbed /= <<>>
                    THEN Some(SumSeq(PresentScores(cycle.absorbed)) \div Len(cycle.absorbed))
                    ELSE None
       IN  fusion_calls' =
              [fusion_calls EXCEPT
                  ![t].pc = "returned",
                  ![t].ret = Some(Ok(FusionResult(Len(cycle.absorbed), Len(cycle.pending),
                                                  cycle.anchors, score, cycle.iterations)))]
    /\ UNCHANGED <<fusion_state, fusion_result, fusion_lock, fusion_stats>>

\* FusionOrchestrator::stats: the counters are copied under the read guard,
\* which no task gets while a write guard is held.
Stats ==
    /\ fusion_lock = None
    /\ fusion_stats' =
          Some([total_fragments_processed |->
                   Unwrap(fusion_state).total_fragments_processed,
                total_anchors_created |-> Unwrap(fusion_state).total_anchors_created])
    /\ UNCHANGED <<fusion_state, fusion_result, fusion_calls, fusion_lock>>

OrchestratorNext ==
    \/ \E t \in FusionTasks : PfRunCycle(t) /\ UNCHANGED <<vars, outside_fusion>>
    \/ \E t \in FusionTasks : PfWrite(t) /\ UNCHANGED <<vars, outside_fusion>>
    \/ \E t \in FusionTasks : PfLoad(t) /\ UNCHANGED <<vars, outside_fusion>>
    \/ \E t \in FusionTasks : PfStore(t) /\ UNCHANGED <<vars, outside_fusion>>
    \/ \E t \in FusionTasks : PfUnlock(t) /\ UNCHANGED <<vars, outside_fusion>>
    \/ \E t \in FusionTasks : PfReturn(t) /\ UNCHANGED <<vars, outside_fusion>>
    \/ Stats /\ UNCHANGED <<vars, outside_fusion>>

OrchestratorSpec == OrchestratorInit /\ [][OrchestratorNext]_all_vars

\* The tasks whose call has added to both counters, and those whose call
\* has returned Ok.
Counted == {t \in FusionTasks : fusion_calls[t].pc \in {"updated", "unlocked", "returned"}}
ReturnedOk ==
    {t \in FusionTasks :
        /\ fusion_calls[t].pc = "returned"
        /\ IsSome(fusion_calls[t].ret)
        /\ Unwrap(fusion_calls[t].ret).ok}

\* The counters that the calls of the tasks in S add up to: the sizes of
\* their batches and the numbers of their anchors.
ExactCounters(S) ==
    [total_fragments_processed |->
        SumSeq([t \in FusionTasks |->
                   IF t \in S THEN Len(fusion_calls[t].args.frags) ELSE 0]),
     total_anchors_created |->
        SumSeq([t \in FusionTasks |->
                   IF t \in S THEN Len(Unwrap(fusion_calls[t].cycle).anchors) ELSE 0])]

\* The same sums, taken from the FusionResults that were returned.
ReturnedCounters ==
    [total_fragments_processed |->
        SumSeq([t \in FusionTasks |->
                   IF t \in ReturnedOk
                   THEN Unwrap(fusion_calls[t].ret).value.absorbed_count
                          + Unwrap(fusion_calls[t].ret).value.pending_count
                   ELSE 0]),
     total_anchors_created |->
        SumSeq([t \in FusionTasks |->
                   IF t \in ReturnedOk
                   THEN Len(Unwrap(fusion_calls[t].ret).value.anchors)
                   ELSE 0])]

\* No call is between taking the write guard and its return.
NoneInFlight ==
    \A t \in FusionTasks :
        fusion_calls[t].pc \in {"call", "cycling", "cycled", "returned"}

\* C38: FusionOrchestrator's counters are exact under concurrency: after
\* any set of process_fragments calls that have returned, in any
\* interleaving, total_fragments_processed equals the sum of the batch
\* sizes (absorbed + pending counts) of those calls and
\* total_anchors_created equals the sum of their anchor counts; no update
\* is lost.  Whenever no write guard is held the counters are the sums over
\* the calls that have updated them, which are the returned calls when none
\* is in flight; at most one task is between write() and the drop of the
\* guard; and stats() returns those sums.
C38_CountersExact ==
    /\ [](fusion_lock = None => Unwrap(fusion_state) = ExactCounters(Counted))
    /\ [](NoneInFlight =>
             /\ Counted = ReturnedOk
             /\ Unwrap(fusion_state) = ReturnedCounters)
    /\ [](\A t \in FusionTasks :
             fusion_calls[t].pc \in {"fragments", "fragments_loaded", "anchors",
                                     "anchors_loaded", "updated"}
                 <=> fusion_lock = Some(t))
    /\ [][Stats => fusion_stats' = Some(ExactCounters(Counted))]_all_vars

\* Two calls with batches of two and three fragments, one and three
\* anchors, have both returned and the counters read 5 and 4; stats() has
\* seen the counters of the first one alone.
C38_Witness ==
    /\ fusion_calls[1].pc = "returned"
    /\ fusion_calls[2].pc = "returned"
    /\ Len(fusion_calls[1].args.frags) = 2
    /\ Len(fusion_calls[2].args.frags) = 3
    /\ Unwrap(fusion_state) = [total_fragments_processed |-> 5,
                               total_anchors_created |-> 4]
    /\ fusion_stats = Some([total_fragments_processed |-> 2,
                            total_anchors_created |-> 1])

\* A task waits for the write guard while the other one is between the
\* load and the store of a counter.
WriterWaits ==
    /\ fusion_calls[1].pc = "cycled"
    /\ fusion_calls[2].pc = "fragments_loaded"
    /\ fusion_lock = Some(2)

\* The call of a fragment that never passes is still in run_native_cycle
\* after the other call has returned.
CallNeverReturns ==
    /\ fusion_calls[1].pc = "cycling"
    /\ fusion_calls[1].args.cap = None
    /\ fusion_calls[2].pc = "returned"

(***************************************************************************)
(* RetrySpec: one call of post_with_retry or delete_with_retry on a        *)
(* connector configured with up to MaxConfiguredRetries retries.  The      *)
(* remote answers each attempt with a response or with an error; the       *)
(* error of attempt k is named "error-k".  Durations are in milliseconds.  *)
(* `sent` counts the attempts, `hosted_ops` holds the configuration and    *)
(* the call: its locals retries and backoff, the waits it has slept and    *)
(* what each attempt got.                                                  *)
(***************************************************************************)
MaxConfiguredRetries == 8   \* largest cfg.max_retries

InitialBackoffMs == 100
BackoffCapMs == 10000

PostResponses == {"response-a", "response-b"}

\* Err(e) if retries < self.cfg.max_retries
\* Fault: one retry too many.
can_retry_Inclusive(retries, max_retries) == retries <= max_retries
can_retry(retries, max_retries) == retries < max_retries

\* backoff = backoff.saturating_mul(2); if backoff > Duration::from_secs(10)
\* { backoff = Duration::from_secs(10); }   (the product of a backoff of at
\* most 10 s is far from Duration::MAX, where saturating_mul would stop)
\* Fault: the doubled backoff is not capped.
next_backoff_Uncapped(backoff) == backoff * 2
next_backoff(backoff) ==
    IF backoff * 2 > BackoffCapMs THEN BackoffCapMs ELSE backoff * 2

RetryInit ==
    /\ NoCycle
    /\ NoEngine
    /\ NoApi
    /\ NoGil
    /\ NoFusion
    /\ allocations = << >>
    /\ metrics = << >>
    /\ sent = 0
    /\ \E r \in 0..MaxConfiguredRetries :
          hosted_ops = [cfg  |-> [max_retries |-> r],
                        call |-> [op |-> "none", pc |-> "idle", retries |-> 0,
                                  backoff |-> 0, slept |-> << >>, got |-> << >>,
                                  ret |-> Ok("")]]

\* let mut retries = 0; let mut backoff = Duration::from_millis(100);
WithRetryBegin(op) ==
    /\ hosted_ops.call.pc = "idle"
    /\ hosted_ops' = [hosted_ops EXCEPT
                         !.call.op = op,
                         !.call.pc = "attempt",
                         !.call.retries = 0,
                         !.call.backoff = InitialBackoffMs]
    /\ UNCHANGED <<allocations, metrics, sent>>

\* Ok(response) => return Ok(response)   /   Ok(_) => return Ok(())
AttemptOk ==
    /\ hosted_ops.call.pc = "attempt"
    /\ \E resp \in IF hosted_ops.call.op = "post_with_retry" THEN PostResponses
                   ELSE {UnitValue} :
          hosted_ops' = [hosted_ops EXCEPT
                            !.call.pc = "returned",
                            !.call.got = Append(@, "ok"),
                            !.call.ret = Ok(resp)]
    /\ sent' = sent + 1
    /\ UNCHANGED <<allocations, metrics>>

\* Err(e) if retries < self.cfg.max_retries => { retries += 1;
\* sleep(backoff).await; backoff = ...; }
AttemptErrRetry ==
    /\ hosted_ops.call.pc = "attempt"
    /\ can_retry(hosted_ops.call.retries, hosted_ops.cfg.max_retries)
    /\ hosted_ops' = [hosted_ops EXCEPT
                         !.call.retries = @ + 1,
                         !.call.slept = Append(@, hosted_ops.call.backoff),
                         !.call.backoff = next_backoff(@),
                         !.call.got = Append(@, "err")]
    /\ sent' = sent + 1
    /\ UNCHANGED <<allocations, metrics>>

\* Err(e) => return Err(e)
AttemptErrReturn ==
    /\ hosted_ops.call.pc = "attempt"
    /\ ~can_retry(hosted_ops.call.retries, hosted_ops.cfg.max_retries)
    /\ hosted_ops' = [hosted_ops EXCEPT
                         !.call.pc = "returned",
                         !.call.got = Append(@, "err"),
                         !.call.ret = Err("error-" \o ToString(sent + 1))]
    /\ sent' = sent + 1
    /\ UNCHANGED <<allocations, metrics>>

RetryNext ==
    \/ WithRetryBegin("post_with_retry") /\ UNCHANGED outside_hosted
    \/ WithRetryBegin("delete_with_retry") /\ UNCHANGED outside_hosted
    \/ AttemptOk /\ UNCHANGED outside_hosted
    \/ AttemptErrRetry /\ UNCHANGED outside_hosted
    \/ AttemptErrReturn /\ UNCHANGED outside_hosted

RetrySpec == RetryInit /\ [][RetryNext]_all_vars

\* The wait before attempt k + 1: 100 ms doubled k - 1 times, at most 10 s.
RECURSIVE ExpectedWait(_)
ExpectedWait(k) ==
    IF k = 1 THEN 100
    ELSE IF 2 * ExpectedWait(k - 1) > 10000 THEN 10000
    ELSE 2 * ExpectedWait(k - 1)

\* C39: post_with_retry and delete_with_retry make at most max_retries + 1
\* attempts: they return the first successful response without further
\* attempts, return the error of the last attempt once max_retries retries
\* have failed, and between attempts wait a backoff that starts at 100 ms,
\* doubles after each failure and never exceeds 10 s.
C39_RetryWithBackoff ==
    LET call == hosted_ops.call
        max  == hosted_ops.cfg.max_retries
    IN  /\ sent <= max + 1
        /\ Len(call.got) = sent
        /\ \A k \in 1..(sent - 1) : call.got[k] = "err"
        /\ call.pc = "attempt" => Len(call.slept) = sent
        /\ call.pc = "returned" =>
              /\ Len(call.slept) = sent - 1
              /\ sent >= 1
              /\ call.ret.ok <=> call.got[sent] = "ok"
              /\ ~call.ret.ok =>
                    /\ sent = max + 1
                    /\ call.retries = max
                    /\ call.ret.value = "error-" \o ToString(max + 1)
        /\ \A k \in Indices(call.slept) :
              /\ call.slept[k] = ExpectedWait(k)
              /\ call.slept[k] <= 10000
              /\ k = 1 => call.slept[k] = 100
              /\ (k > 1 /\ call.slept[k] < 10000) => call.slept[k] = 2 * call.slept[k - 1]

\* With max_retries = 8, eight attempts failed and the ninth succeeded: the
\* call slept 100, 200, 400, 800, 1600, 3200 and 6400 ms and then the cap
\* of 10 s, and returned the response.
C39_Witness ==
    /\ hosted_ops.cfg.max_retries = 8
    /\ hosted_ops.call.op = "post_with_retry"
    /\ hosted_ops.call.pc = "returned"
    /\ hosted_ops.call.ret = Ok("response-b")
    /\ sent = 9
    /\ hosted_ops.call.slept = <<100, 200, 400, 800, 1600, 3200, 6400, 10000>>

\* With max_retries = 2 the third attempt of delete_with_retry failed and
\* its error was returned.
RetriesExhausted ==
    /\ hosted_ops.cfg.max_retries = 2
    /\ hosted_ops.call.op = "delete_with_retry"
    /\ hosted_ops.call.pc = "returned"
    /\ hosted_ops.call.ret = Err("error-3")
    /\ hosted_ops.call.slept = <<100, 200>>

\* With max_retries = 0 the first attempt failed and its error was returned
\* without a wait.
NoRetryConfigured ==
    /\ hosted_ops.cfg.max_retries = 0
    /\ hosted_ops.call.pc = "returned"
    /\ hosted_ops.call.ret = Err("error-1")
    /\ hosted_ops.call.slept = << >>

(***************************************************************************)
(* Strike (crates/harpoon_bridge/src/strike.rs).  StrikeSpec is one call   *)
(* of execute_strike on a list of up to MaxRepos repository names, which   *)
(* may repeat.  The uuid of the run and the date of the branch names come  *)
(* from the environment; the clock reads of one call fall on one day.  The *)
(* log lines are left out.                                                 *)
(***************************************************************************)
MaxRepos == 6       \* longest target_repos

TargetLimit == 5
InitialStrength == 8000     \* 0.8, in 1/10000

RepoNames == {"org/a", "org/b", "org/c"}
RepoLists == UNION {[1..n -> RepoNames] : n \in 0..MaxRepos}
Uuids == {"0a1b2c3d-1111-4111-8111-111111111111",
          "9f8e7d6c-2222-4222-8222-222222222222"}
StrikeDates == {"20250101"}
CovenantIds == {"cov-1"}

StrikeTarget(repo, role) ==
    [repo |-> repo, role |-> role,
     rationale |-> "Selected based on covenant objectives"]

PullRequestInfo(repo, pr_url, branch_name, status) ==
    [repo |-> repo, pr_url |-> pr_url, branch_name |-> branch_name, status |-> status]

CableState(source_repo, target_repo, cable_type, strength) ==
    [source_repo |-> source_repo, target_repo |-> target_repo,
     cable_type |-> cable_type, strength |-> strength, metadata |-> << >>]

StrikeResult(run_id, covenant_id, pr_links, cable_states, status) ==
    [run_id |-> run_id, covenant_id |-> covenant_id, pr_links |-> pr_links,
     cable_states |-> cable_states, status |-> status]

\* let role = if idx == 0 { TargetRole::Anchor } else { TargetRole::Agno };
\* Fault: every target is an Agno.
role_of_NoAnchor(idx) == "Agno"
role_of(idx) == IF idx = 0 THEN "Anchor" ELSE "Agno"

\* for (idx, repo) in repos.iter().enumerate() { targets.push(..);
\*     if targets.len() >= 5 { break; } }
RECURSIVE select_loop(_, _, _)
select_loop(repos, idx, targets) ==
    IF idx >= Len(repos) THEN targets
    ELSE LET pushed == Append(targets, StrikeTarget(repos[idx + 1], role_of(idx)))
         IN  IF Len(pushed) >= TargetLimit THEN pushed
             ELSE select_loop(repos, idx + 1, pushed)

select_strike_targets(repos) ==
    LET targets == select_loop(repos, 0, << >>)
    IN  IF targets = << >> THEN Err("No suitable targets found")
        ELSE Ok(targets)

create_pr_for_target(tgt, date) ==
    LET branch_name == "ubiq/harpoon-" \o date \o "-"
                          \o (IF tgt.role = "Anchor" THEN "anchor" ELSE "agno")
    IN  Ok(PullRequestInfo(tgt.repo,
                           "https://github.com/" \o tgt.repo \o "/pull/mock",
                           branch_name, "Pending"))

\* targets.iter().find(|t| matches!(t.role, TargetRole::Anchor)).map(|t| t.repo.clone())
find_anchor(targets) ==
    LET found == SelectSeq(targets, LAMBDA t : t.role = "Anchor")
    IN  IF found = << >> THEN None ELSE Some(found[1].repo)

\* for target in targets { pr_links.push(..); if Agno { cable_states.insert(..) } }
RECURSIVE strike_loop(_, _, _, _, _, _)
strike_loop(targets, k, anchor_repo, date, pr_links, cable_states) ==
    IF k > Len(targets) THEN [pr_links |-> pr_links, cable_states |-> cable_states]
    ELSE LET tgt == targets[k]
             pr_info == create_pr_for_target(tgt, date).value
         IN  strike_loop(targets, k + 1, anchor_repo, date,
                 Append(pr_links, pr_info),
                 IF tgt.role = "Agno"
                 THEN insert(cable_states, tgt.repo,
                             CableState(anchor_repo, tgt.repo, "Secondary",
                                        InitialStrength))
                 ELSE cable_states)

execute_strike(covenant_id, target_repos, uuid_str, date) ==
    LET run_id   == "strike-" \o SubSeq(uuid_str, 1, 8)
        selected == select_strike_targets(target_repos)
    IN  IF ~selected.ok THEN Err(selected.value)
        ELSE LET targets == selected.value
                 anchor  == find_anchor(targets)
             IN  IF ~IsSome(anchor) THEN Err("No anchor repository selected")
                 ELSE LET done == strike_loop(targets, 1, Unwrap(anchor), date,
                                              << >>, << >>)
                      IN  Ok(StrikeResult(run_id, covenant_id, done.pr_links,
                                          done.cable_states, "Active"))

StrikeInit ==
    /\ NoCycle
    /\ NoEngine
    /\ NoGil
    /\ NoFusion
    /\ NoHosted
    /\ \E c \in CovenantIds, repos \in RepoLists :
          request = [op |-> "execute_strike", covenant_id |-> c, target_repos |-> repos]
    /\ response = None

ExecuteStrike ==
    /\ request.op = "execute_strike"
    /\ response = None
    /\ \E uuid_str \in Uuids, date \in StrikeDates :
          response' = Some(execute_strike(request.covenant_id, request.target_repos,
                                          uuid_str, date))
    /\ UNCHANGED request

StrikeNext == ExecuteStrike /\ UNCHANGED outside_api

StrikeSpec == StrikeInit /\ [][StrikeNext]_all_vars

\* The call has returned; what it was given and what it returned.
StrikeReturned == IsSome(response)
Repos == request.target_repos
Strike == Unwrap(response)
Selected == Min(Len(Repos), 5)
AgnoPlaces == 2..Selected

\* What holds of the targets, the PR entries and the result for every list:
\* the first 5 repos in order, the first one Anchor and the others Agno, one
\* PR entry per target, every cable from the anchor repo, and an error for
\* the empty list.
StrikeTargetsAndPrs ==
    StrikeReturned =>
        IF Repos = << >>
        THEN /\ ~Strike.ok
             /\ Strike.value = "No suitable targets found"
        ELSE /\ Strike.ok
             /\ LET targets == select_strike_targets(Repos).value
                    res     == Strike.value
                IN  /\ Len(targets) = Selected
                    /\ Len(targets) <= 5
                    /\ \A k \in 1..Selected :
                          /\ targets[k].repo = Repos[k]
                          /\ targets[k].role = (IF k = 1 THEN "Anchor" ELSE "Agno")
                    /\ Len(res.pr_links) = Selected
                    /\ \A k \in 1..Selected :
                          /\ res.pr_links[k].repo = Repos[k]
                          /\ res.pr_links[k].status = "Pending"
                          /\ ends_with(res.pr_links[k].branch_name,
                                       IF k = 1 THEN "-anchor" ELSE "-agno")
                    /\ \A key \in DOMAIN res.cable_states :
                          /\ res.cable_states[key].source_repo = Repos[1]
                          /\ res.cable_states[key].target_repo = key
                          /\ res.cable_states[key].cable_type = "Secondary"
                    /\ res.status = "Active"
                    /\ res.covenant_id = request.covenant_id
                    /\ Len(res.run_id) = 15

\* C40 (as claimed): execute_strike on a non-empty repo list selects at
\* most 5 targets (the first 5 repos in order), assigns the Anchor role to exactly the
\* first and Agno to all others, creates one PR entry per target, and one
\* cable per Agno target whose source_repo is the anchor repo; on an empty
\* repo list it fails with an error and returns no StrikeResult.
C40_StrikeTargetsAndCables ==
    /\ StrikeTargetsAndPrs
    /\ (StrikeReturned /\ Repos /= << >>) =>
          /\ Cardinality(DOMAIN Strike.value.cable_states) = Selected - 1
          /\ \A k \in AgnoPlaces : Repos[k] \in DOMAIN Strike.value.cable_states

\* C40 (amended): execute_strike on a non-empty repo list selects at most 5
\* targets (the first 5 repos in order), assigns the Anchor role to exactly
\* the first and Agno to all others, creates one PR entry per target, and
\* one cable per distinct repo name among the Agno targets, whose
\* source_repo is the anchor repo: cable_states is keyed by repo name, so
\* there is one cable per Agno target exactly when the names of the Agno
\* targets are pairwise distinct.  On an empty repo list it fails with an
\* error and returns no StrikeResult.
C40_CablesPerRepoName ==
    /\ StrikeTargetsAndPrs
    /\ (StrikeReturned /\ Repos /= << >>) =>
          /\ DOMAIN Strike.value.cable_states = {Repos[k] : k \in AgnoPlaces}
          /\ (Cardinality(DOMAIN Strike.value.cable_states) = Selected - 1)
                <=> (\A j, k \in AgnoPlaces : j /= k => Repos[j] /= Repos[k])

\* execute_strike returned for the list org/a, org/b, org/b: three PR
\* entries, two of them for the Agno target org/b, and one cable.
RepeatedRepoOneCable ==
    /\ StrikeReturned
    /\ Repos = <<"org/a", "org/b", "org/b">>
    /\ Strike.ok
    /\ Len(Strike.value.pr_links) = 3
    /\ DOMAIN Strike.value.cable_states = {"org/b"}

\* execute_strike returned for six distinct-enough repos: five PR entries.
SixReposFiveTargets ==
    /\ StrikeReturned
    /\ Len(Repos) = 6
    /\ Strike.ok
    /\ Len(Strike.value.pr_links) = 5
    /\ Strike.value.run_id = "strike-0a1b2c3d"

\* execute_strike failed on the empty list.
EmptyRepoListFails ==
    /\ StrikeReturned
    /\ Repos = << >>
    /\ ~Strike.ok

====
